---- MODULE Spec2Model ----
(***************************************************************************)
(* Model of the SAFENET forensic ingestion tools:                          *)
(*   - android_logs_to_safenet_auto.py   (Android evidence store builder)  *)
(*   - m02_windows_logs_02_extract_to_safenet.py (Windows builder)         *)
(*   - validation_android.py             (run disambiguator)               *)
(*   - m01_android_adb_04_validate_coherence.py (coherence validator)      *)
(* Strings are TLA+ strings; paths are sequences of path components        *)
(* relative to the dataset root.                                           *)
(***************************************************************************)
EXTENDS Integers, Sequences, FiniteSets, TLC

VARIABLES
    prog,          \* which program this behaviour runs
    DEVICE_MAP,    \* android builder: the module-level override map
    src,           \* source root: folder name -> [files, subdirs]
    args,          \* command line of the builder
    env,           \* environment of the builder (adb, device registry)
    store,         \* dataset root: [dirs: set of paths, files: path -> content]
    db,            \* windows builder: [rows, pending] of WINDOWS_ACQUISITIONS
    inv,           \* number of the current invocation
    dry_run,       \* --dry-run of the current invocation
    status,        \* "running", "done", "exception", "interrupted"
    pc,            \* position in the current invocation
    run_dirs,      \* main: sorted list of run folders
    run_idx,       \* main: index of the run being processed
    loc,           \* locals of process_run_folder / of the run loop body
    out,           \* per invocation: what the invocation reported
    hist,          \* history: copies made, store at the end of invocations
    q,             \* input of the pure-function programs
    res            \* result of the pure-function programs

vars == <<prog, DEVICE_MAP, src, args, env, store, db, inv, dry_run,
          status, pc, run_dirs, run_idx, loc, out, hist, q, res>>

-----------------------------------------------------------------------------
(* Bounds of the model *)

MaxRuns == 2

-----------------------------------------------------------------------------
(* Python string primitives *)

Chr(s, i) == SubSeq(s, i, i)

StartsWith(s, p) == Len(s) >= Len(p) /\ SubSeq(s, 1, Len(p)) = p

Contains(s, p) ==
    \E i \in 1..(Len(s) - Len(p) + 1) : SubSeq(s, i, i + Len(p) - 1) = p

UpperAlphabet == "ABCDEFGHIJKLMNOPQRSTUVWXYZ"

LowerAlphabet == "abcdefghijklmnopqrstuvwxyz"

LowerChr(c) ==
    IF \E i \in 1..26 : Chr(UpperAlphabet, i) = c
    THEN Chr(LowerAlphabet, CHOOSE i \in 1..26 : Chr(UpperAlphabet, i) = c)
    ELSE c

RECURSIVE LowerFrom(_, _)
LowerFrom(s, i) ==
    IF i > Len(s) THEN "" ELSE LowerChr(Chr(s, i)) \o LowerFrom(s, i + 1)

Lower(s) == LowerFrom(s, 1)

RECURSIVE SplitFrom(_, _, _, _)
SplitFrom(s, sep, i, cur) ==
    IF i > Len(s) THEN <<cur>>
    ELSE IF Chr(s, i) = sep
         THEN <<cur>> \o SplitFrom(s, sep, i + 1, "")
         ELSE SplitFrom(s, sep, i + 1, cur \o Chr(s, i))

Split(s, sep) == SplitFrom(s, sep, 1, "")

IsDigit(c) == c \in {"0", "1", "2", "3", "4", "5", "6", "7", "8", "9"}

AllDigits(s) == \A i \in 1..Len(s) : IsDigit(Chr(s, i))

-----------------------------------------------------------------------------
(* android_logs_to_safenet_auto.py: tables and pure functions *)

CATEGORY_PREFIXES == <<
    <<"device_info_", "META">>,
    <<"getprop_", "META">>,
    <<"report_summary_", "META">>,
    <<"logcat_main_", "CORE_SYSTEM">>,
    <<"logcat_events_", "CORE_SYSTEM">>,
    <<"logcat_radio_", "CORE_SYSTEM">>,
    <<"logcat_crash_", "CORE_SYSTEM">>,
    <<"dmesg_", "CORE_SYSTEM">>,
    <<"dmesg_su_", "CORE_SYSTEM">>,
    <<"dumpsys_activity_", "CORE_SYSTEM">>,
    <<"dumpsys_power_", "CORE_SYSTEM">>,
    <<"settings_system_", "CORE_SYSTEM">>,
    <<"settings_global_", "CORE_SYSTEM">>,
    <<"settings_secure_", "CORE_SYSTEM">>,
    <<"df_", "CORE_SYSTEM">>,
    <<"mounts_", "CORE_SYSTEM">>,
    <<"netstat_", "CONNECTIVITY">>,
    <<"ip_addr_", "CONNECTIVITY">>,
    <<"ip_route_", "CONNECTIVITY">>,
    <<"dumpsys_connectivity_", "CONNECTIVITY">>,
    <<"dumpsys_wifi_", "CONNECTIVITY">>,
    <<"dumpsys_battery_", "CONNECTIVITY">>,
    <<"dumpsys_package_", "APPS_PACKAGES">>,
    <<"packages_all_", "APPS_PACKAGES">>,
    <<"packages_third_party_", "APPS_PACKAGES">>,
    <<"ps_full_", "APPS_PACKAGES">> >>

RUN_SUBDIRS == <<"META", "CORE_SYSTEM", "CONNECTIVITY", "APPS_PACKAGES", "RAW_ALL">>

\* The first index of a table of <<prefix, value>> whose prefix s starts with; 0 if none.
RECURSIVE FirstPrefix(_, _, _)
FirstPrefix(table, s, i) ==
    IF i > Len(table) THEN 0
    ELSE IF StartsWith(s, table[i][1]) THEN i
         ELSE FirstPrefix(table, s, i + 1)

\* Faulty variant: the longest matching prefix decides.
ClassifyWith_Longest(table, filename) ==
    LET fname == Lower(filename)
        hits == {k \in 1..Len(table) : StartsWith(fname, table[k][1])}
    IN IF hits = {} THEN ""
       ELSE table[CHOOSE k \in hits :
                     \A j \in hits : Len(table[j][1]) <= Len(table[k][1])][2]

\* The body of classify_category over a prefix table.
ClassifyWith(table, filename) ==
    LET fname == Lower(filename)
        k == FirstPrefix(table, fname, 1)
    IN IF k = 0 THEN "" ELSE table[k][2]

classify_category(filename) == ClassifyWith(CATEGORY_PREFIXES, filename)

\* Faulty variant: an identity no tier recognises is replaced by a fixed label.
map_device_logical_FixedFallback(brand_model_serial) ==
    LET bms == brand_model_serial
        bms_lower == Lower(bms)
        parts == Split(bms, "_")
        brand == Lower(parts[1])
        model == IF Len(parts) > 1 THEN Lower(parts[2]) ELSE ""
        k == FirstPrefix(DEVICE_MAP, bms, 1)
    IN IF k # 0 THEN DEVICE_MAP[k][2]
       ELSE IF Contains(model, "s24") \/ Contains(bms_lower, "sm-s92")
            THEN "Samsung_S24"
       ELSE IF Contains(model, "s20") \/ Contains(bms_lower, "sm-g98")
            THEN "Samsung_S20"
       ELSE IF brand = "samsung"
            THEN IF Len(parts) > 1 THEN "Samsung_" \o parts[2]
                 ELSE "Samsung_Unknown"
       ELSE "Unknown_Device"

\* Faulty variant: the S24 / S20 heuristics tried before DEVICE_MAP.
map_device_logical_HeuristicsFirst(brand_model_serial) ==
    LET bms == brand_model_serial
        bms_lower == Lower(bms)
        parts == Split(bms, "_")
        brand == Lower(parts[1])
        model == IF Len(parts) > 1 THEN Lower(parts[2]) ELSE ""
        k == FirstPrefix(DEVICE_MAP, bms, 1)
    IN IF Contains(model, "s24") \/ Contains(bms_lower, "sm-s92")
       THEN "Samsung_S24"
       ELSE IF Contains(model, "s20") \/ Contains(bms_lower, "sm-g98")
            THEN "Samsung_S20"
       ELSE IF k # 0 THEN DEVICE_MAP[k][2]
       ELSE IF brand = "samsung"
            THEN IF Len(parts) > 1 THEN "Samsung_" \o parts[2]
                 ELSE "Samsung_Unknown"
       ELSE bms

\* Faulty variant: the vendor label is built from the last token.
map_device_logical_VendorSerial(brand_model_serial) ==
    LET bms == brand_model_serial
        bms_lower == Lower(bms)
        parts == Split(bms, "_")
        brand == Lower(parts[1])
        model == IF Len(parts) > 1 THEN Lower(parts[2]) ELSE ""
        k == FirstPrefix(DEVICE_MAP, bms, 1)
    IN IF k # 0 THEN DEVICE_MAP[k][2]
       ELSE IF Contains(model, "s24") \/ Contains(bms_lower, "sm-s92")
            THEN "Samsung_S24"
       ELSE IF Contains(model, "s20") \/ Contains(bms_lower, "sm-g98")
            THEN "Samsung_S20"
       ELSE IF brand = "samsung"
            THEN IF Len(parts) > 1 THEN "Samsung_" \o parts[Len(parts)]
                 ELSE "Samsung_Unknown"
       ELSE bms

map_device_logical(brand_model_serial) ==
    LET bms == brand_model_serial
        bms_lower == Lower(bms)
        parts == Split(bms, "_")
        brand == Lower(parts[1])
        model == IF Len(parts) > 1 THEN Lower(parts[2]) ELSE ""
        k == FirstPrefix(DEVICE_MAP, bms, 1)
    IN IF k # 0 THEN DEVICE_MAP[k][2]
       ELSE IF Contains(model, "s24") \/ Contains(bms_lower, "sm-s92")
            THEN "Samsung_S24"
       ELSE IF Contains(model, "s20") \/ Contains(bms_lower, "sm-g98")
            THEN "Samsung_S20"
       ELSE IF brand = "samsung"
            THEN IF Len(parts) > 1 THEN "Samsung_" \o parts[2]
                 ELSE "Samsung_Unknown"
       ELSE bms

\* Faulty variant: any four digits are taken as the year.
parse_run_folder_name_AnyCentury(folder_name) ==
    LET n == Len(folder_name)
    IN IF /\ n >= 16
          /\ Chr(folder_name, n - 15) = "_"
          /\ AllDigits(SubSeq(folder_name, n - 14, n - 7))
          /\ Chr(folder_name, n - 6) = "_"
          /\ AllDigits(SubSeq(folder_name, n - 5, n))
       THEN <<SubSeq(folder_name, 1, n - 16), SubSeq(folder_name, n - 14, n)>>
       ELSE <<folder_name, "unknown_run">>

\* re.match(r"^(.*)_(20\d{6}_\d{6})$", folder_name)
parse_run_folder_name(folder_name) ==
    LET n == Len(folder_name)
    IN IF /\ n >= 16
          /\ Chr(folder_name, n - 15) = "_"
          /\ SubSeq(folder_name, n - 14, n - 13) = "20"
          /\ AllDigits(SubSeq(folder_name, n - 12, n - 7))
          /\ Chr(folder_name, n - 6) = "_"
          /\ AllDigits(SubSeq(folder_name, n - 5, n))
       THEN <<SubSeq(folder_name, 1, n - 16), SubSeq(folder_name, n - 14, n)>>
       ELSE <<folder_name, "unknown_run">>

-----------------------------------------------------------------------------
(* The file system under the dataset root *)

\* The path itself and every ancestor, the dataset root << >> included.
Ancestors(p) == {SubSeq(p, 1, k) : k \in 0..Len(p)}

\* pathlib's "/" : joining an empty component leaves the path unchanged.
PathJoin(p, name) == IF name = "" THEN p ELSE Append(p, name)

Parent(p) == SubSeq(p, 1, Len(p) - 1)

EmptyStore == [dirs |-> {}, files |-> <<>>]

IsFile(st, p) == p \in DOMAIN st.files

\* Faulty variant: exist_ok=False.
MkdirOk_ExistFails(st, p) == p \notin st.dirs /\ \A a \in Ancestors(p) : ~IsFile(st, a)

\* Path.mkdir(parents=True, exist_ok=True) succeeds unless a component is a file.
MkdirOk(st, p) == \A a \in Ancestors(p) : ~IsFile(st, a)

Mkdir(st, p) == [st EXCEPT !.dirs = @ \cup Ancestors(p)]

WriteFile(st, p, content) ==
    [st EXCEPT !.files = [x \in (DOMAIN @) \cup {p} |-> IF x = p THEN content ELSE @[x]]]

\* The content of the source file `name` of run folder `folder` (sub = "" or "EVTX").
SrcContent(folder, sub, name) ==
    [kind |-> "raw", origin |-> folder, sub |-> sub, name |-> name]

\* Faulty variant: the dry-run test inverted.
copy_file_Inverted(st, content, dst, dry) ==
    IF ~dry THEN st ELSE WriteFile(Mkdir(st, Parent(dst)), dst, content)

\* copy_file(src, dst, dry_run): dst.parent.mkdir(...); shutil.copy2(src, dst)
copy_file(st, content, dst, dry) ==
    IF dry THEN st ELSE WriteFile(Mkdir(st, Parent(dst)), dst, content)

\* Faulty variant: the dry-run test forgotten.
write_json_Always(st, path, data, dry) ==
    WriteFile(Mkdir(st, Parent(path)), path, data)

\* write_json(path, data, dry_run)
write_json(st, path, data, dry) ==
    IF dry THEN st ELSE WriteFile(Mkdir(st, Parent(path)), path, data)

-----------------------------------------------------------------------------
(* Source roots the model draws from *)

\* Every name of the catalogues, in the order sorted() gives them.
NameOrder == <<
    "Application.evtx", "Archive", "EVTX", "META", "Misc", "Notes.txt",
    "PICCIRILLA_AleNew_20251123_233251",
    "SPARTACUS_20251124_101500",
    "Security.evtx",
    "UNKNOWNPC_20251124_101500",
    "acme_modelX_SN123_20250601_120000",
    "bugreport",
    "dumpsys_battery_20250601_120000.txt",
    "empty_20250601_120000",
    "logcat_main_20250601_120000.txt",
    "notes.txt",
    "old_dump",
    "samsung_SM-S921B_R1_20250601_120000",
    "samsung_SM-S921B_R2_20250601_120000" >>

Sorted(S) == SelectSeq(NameOrder, LAMBDA n : n \in S)

\* The run folders an android_logs root may hold, with what each holds.
AndroidCatalog ==
    [folder \in {"acme_modelX_SN123_20250601_120000", "empty_20250601_120000", "old_dump",
                 "samsung_SM-S921B_R1_20250601_120000",
                 "samsung_SM-S921B_R2_20250601_120000"} |->
        CASE folder = "acme_modelX_SN123_20250601_120000" ->
                [files |-> {"logcat_main_20250601_120000.txt",
                            "dumpsys_battery_20250601_120000.txt"},
                 subdirs |-> {}, evtx |-> {}, evtxdirs |-> {}]
          [] folder = "empty_20250601_120000" ->
                [files |-> {}, subdirs |-> {}, evtx |-> {}, evtxdirs |-> {}]
          [] folder = "old_dump" ->
                [files |-> {"notes.txt"}, subdirs |-> {}, evtx |-> {}, evtxdirs |-> {}]
          [] folder = "samsung_SM-S921B_R1_20250601_120000" ->
                [files |-> {"logcat_main_20250601_120000.txt", "notes.txt"},
                 subdirs |-> {"bugreport"}, evtx |-> {}, evtxdirs |-> {}]
          [] folder = "samsung_SM-S921B_R2_20250601_120000" ->
                [files |-> {"logcat_main_20250601_120000.txt",
                            "dumpsys_battery_20250601_120000.txt"},
                 subdirs |-> {}, evtx |-> {}, evtxdirs |-> {}]]

\* Command lines and environments (find_adb_executable(), the device's getprop answers).
AndroidConfigs == {
    [args |-> [script_name |-> "android_log_dump", script_version |-> "0.2",
               adb_info |-> FALSE],
     env |-> [adb_path |-> FALSE, props |-> {}]],
    [args |-> [script_name |-> "android_log_dump", script_version |-> "0.2",
               adb_info |-> TRUE],
     env |-> [adb_path |-> TRUE, props |-> {<<"ro.serialno", "R1">>}]],
    [args |-> [script_name |-> "tool", script_version |-> "v1", adb_info |-> TRUE],
     env |-> [adb_path |-> FALSE, props |-> {}]] }

\* The run folders a Forensic_Logs root may hold, with what each holds.
WindowsCatalog ==
    [folder \in {"Misc", "PICCIRILLA_AleNew_20251123_233251", "SPARTACUS_20251124_101500",
                 "UNKNOWNPC_20251124_101500"} |->
        CASE folder = "PICCIRILLA_AleNew_20251123_233251" ->
                [files |-> {"Notes.txt"}, subdirs |-> {"EVTX", "META"},
                 evtx |-> {"Application.evtx", "Security.evtx"}, evtxdirs |-> {"Archive"}]
          [] folder = "SPARTACUS_20251124_101500" ->
                [files |-> {"Notes.txt", "Security.evtx"}, subdirs |-> {"META"},
                 evtx |-> {}, evtxdirs |-> {}]
          [] folder = "UNKNOWNPC_20251124_101500" ->
                [files |-> {"Security.evtx"}, subdirs |-> {},
                 evtx |-> {}, evtxdirs |-> {}]
          [] folder = "Misc" ->
                [files |-> {"Notes.txt"}, subdirs |-> {}, evtx |-> {}, evtxdirs |-> {}]]

\* Command lines and the DEVICE_MASTER table the builder reads (label, device_id).
WindowsConfigs == {
    [args |-> [tool_tag |-> "wevtutil_export"],
     env |-> [device_master |-> {<<"PICCIRILLA_AleNew", 201>>, <<"SPARTACUS", 202>>}]],
    [args |-> [tool_tag |-> "wevtutil_export"],
     env |-> [device_master |-> {}]] }

\* The source roots that hold at most MaxRuns run folders of a catalogue.
SrcRoots(catalog) ==
    {[f \in S |-> catalog[f]] :
        S \in {T \in SUBSET DOMAIN catalog : Cardinality(T) <= MaxRuns}}

NoLoc == [idle |-> TRUE]

NoHist == [copied |-> {}, ends |-> <<>>]

-----------------------------------------------------------------------------
(* android_logs_to_safenet_auto.py: main and process_run_folder *)

ZeroCounts == [name \in {RUN_SUBDIRS[i] : i \in 1..Len(RUN_SUBDIRS)} |-> 0]

\* dataset_root.mkdir(...) fails: the exception ends the invocation with a traceback.
Raise ==
    /\ status' = "exception"
    /\ UNCHANGED <<prog, DEVICE_MAP, src, args, env, store, db, inv, dry_run,
                   pc, run_dirs, run_idx, loc, out, hist, q, res>>

\* main, up to the loop over the run folders
A_Main ==
    /\ prog = "android" /\ status = "running" /\ pc = "start"
    /\ \/ /\ store' = IF dry_run THEN store ELSE Mkdir(store, <<>>)
          /\ run_dirs' = Sorted(DOMAIN src)
          /\ IF run_dirs' = <<>>
             THEN status' = "done" /\ pc' = pc
             ELSE status' = status /\ pc' = "next_run"
          /\ run_idx' = 1
          /\ UNCHANGED <<prog, DEVICE_MAP, src, args, env, db, inv, dry_run,
                         loc, out, hist, q, res>>
       \/ ~dry_run /\ <<>> \notin store.dirs /\ Raise

\* Faulty variant: only the mirror directory is created ahead of the copies.
MkSubdirs_MirrorOnly(st, run_base, i) == Mkdir(st, PathJoin(run_base, "RAW_ALL"))

\* for sub in RUN_SUBDIRS: subdir.mkdir(parents=True, exist_ok=True)
RECURSIVE MkSubdirs(_, _, _)
MkSubdirs(st, run_base, i) ==
    IF i > Len(RUN_SUBDIRS) THEN st
    ELSE MkSubdirs(Mkdir(st, PathJoin(run_base, RUN_SUBDIRS[i])), run_base, i + 1)

SubdirsOk(st, run_base) ==
    \A i \in 1..Len(RUN_SUBDIRS) : MkdirOk(st, PathJoin(run_base, RUN_SUBDIRS[i]))

\* Faulty variant: tool tag and device swapped in the target path.
RunBase_Swapped(device_logical, script_tag, run_id) ==
    PathJoin(PathJoin(PathJoin(<<>>, script_tag), device_logical), run_id)

\* run_base = dataset_root / device_logical / script_tag / run_id
RunBase(device_logical, script_tag, run_id) ==
    PathJoin(PathJoin(PathJoin(<<>>, device_logical), script_tag), run_id)

\* for run_dir in run_dirs: process_run_folder(...), up to the loop over the files
A_EnterRun ==
    /\ prog = "android" /\ status = "running" /\ pc = "next_run"
    /\ IF run_idx > Len(run_dirs)
       THEN /\ status' = "done"
            /\ UNCHANGED <<pc, loc, store>>
       ELSE LET name == run_dirs[run_idx]
                parsed == parse_run_folder_name(name)
                device_logical == map_device_logical(parsed[1])
                script_tag == args.script_name \o "_" \o args.script_version
                run_base == RunBase(device_logical, script_tag, parsed[2])
            IN IF ~dry_run /\ ~SubdirsOk(store, run_base)
               THEN /\ status' = "exception"
                    /\ UNCHANGED <<pc, loc, store>>
               ELSE /\ loc' = [run_dir |-> name,
                               brand_model_serial |-> parsed[1],
                               device_logical |-> device_logical,
                               run_id |-> parsed[2],
                               run_base |-> run_base,
                               total_files |-> 0,
                               category_counts |-> ZeroCounts,
                               uncategorized_files |-> <<>>,
                               items |-> Sorted(src[name].files \cup src[name].subdirs),
                               item |-> 1,
                               cat |-> "",
                               assigned |-> <<>>]
                    /\ store' = IF dry_run THEN store ELSE MkSubdirs(store, run_base, 1)
                    /\ pc' = "files"
                    /\ status' = status
    /\ UNCHANGED <<prog, DEVICE_MAP, src, args, env, db, inv, dry_run,
                   run_dirs, run_idx, out, hist, q, res>>

\* Faulty variant: the loop leaves one item early.
ItemsDone_Early(l) == l.item > Len(l.items) - 1

\* The file loop of process_run_folder has run through every item.
ItemsDone(l) == l.item > Len(l.items)

\* for item in sorted(run_dir.iterdir()): ... copy_file(item, raw_dest, dry_run)
A_NextItem ==
    /\ prog = "android" /\ status = "running" /\ pc = "files"
    /\ IF ItemsDone(loc)
       THEN /\ pc' = "meta"
            /\ UNCHANGED <<status, store, loc, hist>>
       ELSE LET name == loc.items[loc.item]
            IN IF name \notin src[loc.run_dir].files
               THEN /\ loc' = [loc EXCEPT !.item = @ + 1]
                    /\ UNCHANGED <<status, store, pc, hist>>
               ELSE \/ LET raw_dest == PathJoin(PathJoin(loc.run_base, "RAW_ALL"), name)
                           cat == classify_category(name)
                       IN /\ store' = copy_file(store, SrcContent(loc.run_dir, "", name),
                                                raw_dest, dry_run)
                          /\ loc' = [loc EXCEPT
                                       !.total_files = @ + 1,
                                       !.cat = cat,
                                       !.category_counts["RAW_ALL"] = @ + 1,
                                       !.assigned = Append(@, <<name, cat>>)]
                          /\ hist' = IF dry_run THEN hist
                                     ELSE [hist EXCEPT !.copied = @ \cup {<<loc.run_dir, name>>}]
                          /\ pc' = "cat"
                          /\ status' = status
                    \/ /\ ~dry_run
                       /\ status' = "exception"
                       /\ UNCHANGED <<store, loc, pc, hist>>
    /\ UNCHANGED <<prog, DEVICE_MAP, src, args, env, db, inv, dry_run,
                   run_dirs, run_idx, out, q, res>>

\* if cat: copy_file(item, dst_cat, dry_run) else: uncategorized_files.append(...)
A_CatCopy ==
    /\ prog = "android" /\ status = "running" /\ pc = "cat"
    /\ LET name == loc.items[loc.item]
       IN IF loc.cat # ""
          THEN \/ /\ store' = copy_file(store, SrcContent(loc.run_dir, "", name),
                                        PathJoin(PathJoin(loc.run_base, loc.cat), name),
                                        dry_run)
                  /\ loc' = [loc EXCEPT !.category_counts[loc.cat] = @ + 1,
                                        !.item = @ + 1]
                  /\ pc' = "files"
                  /\ status' = status
               \/ /\ ~dry_run
                  /\ status' = "exception"
                  /\ UNCHANGED <<store, loc, pc>>
          ELSE /\ loc' = [loc EXCEPT !.uncategorized_files = Append(@, name),
                                     !.item = @ + 1]
               /\ pc' = "files"
               /\ UNCHANGED <<store, status>>
    /\ UNCHANGED <<prog, DEVICE_MAP, src, args, env, db, inv, dry_run,
                   run_dirs, run_idx, out, hist, q, res>>

\* Faulty variant: total_files counts every entry of the run folder,
\* sub-directories included.
AndroidMeta_CountsEntries(l) ==
    [kind |-> "meta",
     device_logical |-> l.device_logical,
     brand_model_serial |-> l.brand_model_serial,
     run_id |-> l.run_id,
     script_name |-> args.script_name,
     script_version |-> args.script_version,
     source_run_dir |-> l.run_dir,
     target_run_base |-> l.run_base,
     total_files |-> Len(l.items),
     category_counts |-> l.category_counts,
     uncategorized_files |-> l.uncategorized_files,
     has_adb_info |-> args.adb_info,
     adb_info |-> [is_dict |-> TRUE,
                   items |-> IF ~args.adb_info THEN {}
                             ELSE IF env.adb_path THEN env.props
                             ELSE {<<"warning", "adb non trovato in platform-tools/">>}]]

\* meta = {...}; adb_info; write_json(meta_path, meta, dry_run)
AndroidMeta(l) ==
    [kind |-> "meta",
     device_logical |-> l.device_logical,
     brand_model_serial |-> l.brand_model_serial,
     run_id |-> l.run_id,
     script_name |-> args.script_name,
     script_version |-> args.script_version,
     source_run_dir |-> l.run_dir,
     target_run_base |-> l.run_base,
     total_files |-> l.total_files,
     category_counts |-> l.category_counts,
     uncategorized_files |-> l.uncategorized_files,
     has_adb_info |-> args.adb_info,
     adb_info |-> [is_dict |-> TRUE,
                   items |-> IF ~args.adb_info THEN {}
                             ELSE IF env.adb_path THEN env.props
                             ELSE {<<"warning", "adb non trovato in platform-tools/">>}]]

MetaPath(run_base) == PathJoin(PathJoin(run_base, "META"), "acquisition_meta.json")

A_WriteMeta ==
    /\ prog = "android" /\ status = "running" /\ pc = "meta"
    /\ store' = write_json(store, MetaPath(loc.run_base), AndroidMeta(loc), dry_run)
    /\ pc' = "summary"
    /\ UNCHANGED <<prog, DEVICE_MAP, src, args, env, db, inv, dry_run, status,
                   run_dirs, run_idx, loc, out, hist, q, res>>

\* print("[SUMMARY] ..."); return to main's loop
A_Summary ==
    /\ prog = "android" /\ status = "running" /\ pc = "summary"
    /\ out' = Append(out, [run_dir |-> loc.run_dir,
                           run_base |-> loc.run_base,
                           total_files |-> loc.total_files,
                           category_counts |-> loc.category_counts,
                           uncategorized_files |-> loc.uncategorized_files,
                           assigned |-> loc.assigned])
    /\ run_idx' = run_idx + 1
    /\ pc' = "next_run"
    /\ UNCHANGED <<prog, DEVICE_MAP, src, args, env, store, db, inv, dry_run, status,
                   run_dirs, loc, hist, q, res>>

-----------------------------------------------------------------------------
(* m02_windows_logs_02_extract_to_safenet.py *)

LOG_TYPE_PATTERNS == <<
    <<"security", "Security">>,
    <<"system", "System">>,
    <<"application", "Application">>,
    <<"powershell", "PowerShell">>,
    <<"am-si", "AMSI">>,
    <<"amsi", "AMSI">> >>

WIN_RUN_SUBDIRS == <<"META", "LOGS", "RAW_ALL">>

\* re.match(r"^(?P<dev>.+)_(?P<run>\d{8}_\d{6})$", run_dir_name); << >> is None
parse_run_dir_name(run_dir_name) ==
    LET n == Len(run_dir_name)
    IN IF /\ n >= 17
          /\ Chr(run_dir_name, n - 15) = "_"
          /\ AllDigits(SubSeq(run_dir_name, n - 14, n - 7))
          /\ Chr(run_dir_name, n - 6) = "_"
          /\ AllDigits(SubSeq(run_dir_name, n - 5, n))
       THEN <<SubSeq(run_dir_name, 1, n - 16), SubSeq(run_dir_name, n - 14, n)>>
       ELSE <<>>

RECURSIVE FirstPattern(_, _, _)
FirstPattern(table, s, i) ==
    IF i > Len(table) THEN 0
    ELSE IF Contains(s, table[i][1]) THEN i
         ELSE FirstPattern(table, s, i + 1)

\* "" is None
classify_log_type(filename) ==
    LET name == Lower(filename)
        k == FirstPattern(LOG_TYPE_PATTERNS, name, 1)
    IN IF k = 0 THEN "" ELSE LOG_TYPE_PATTERNS[k][2]

\* load_device_map(conn): device_label -> device_id
DeviceId(label) ==
    IF \E r \in env.device_master : r[1] = label
    THEN (CHOOSE r \in env.device_master : r[1] = label)[2]
    ELSE 0

\* iter_runs(windows_logs_root)
iter_runs == SelectSeq(Sorted(DOMAIN src), LAMBDA n : parse_run_dir_name(n) # <<>>)

\* log_files.setdefault(log_type, []).append(rel_path)
RECURSIVE AppendLog(_, _, _, _)
AppendLog(log_files, log_type, rel_path, i) ==
    IF i > Len(log_files) THEN Append(log_files, <<log_type, <<rel_path>> >>)
    ELSE IF log_files[i][1] = log_type
         THEN [log_files EXCEPT ![i] = <<log_type, Append(@[2], rel_path)>>]
         ELSE AppendLog(log_files, log_type, rel_path, i + 1)

RECURSIVE MkWinSubdirs(_, _, _)
MkWinSubdirs(st, base, i) ==
    IF i > Len(WIN_RUN_SUBDIRS) THEN st
    ELSE MkWinSubdirs(Mkdir(st, PathJoin(base, WIN_RUN_SUBDIRS[i])), base, i + 1)

WinSubdirsOk(st, base) ==
    \A i \in 1..Len(WIN_RUN_SUBDIRS) : MkdirOk(st, PathJoin(base, WIN_RUN_SUBDIRS[i]))

\* main, up to the loop over the runs
W_Main ==
    /\ prog = "windows" /\ status = "running" /\ pc = "start"
    /\ \/ /\ store' = IF dry_run THEN store ELSE Mkdir(store, <<>>)
          /\ run_dirs' = iter_runs
          /\ IF run_dirs' = <<>>
             THEN status' = "done" /\ pc' = pc
             ELSE status' = status /\ pc' = "next_run"
          /\ run_idx' = 1
          /\ UNCHANGED <<prog, DEVICE_MAP, src, args, env, db, inv, dry_run,
                         loc, out, hist, q, res>>
       \/ ~dry_run /\ <<>> \notin store.dirs /\ Raise

\* for r in runs: device_id, target_run_base, ensure_dirs, the head of
\* copy_and_classify_files
W_EnterRun ==
    /\ prog = "windows" /\ status = "running" /\ pc = "next_run"
    /\ IF run_idx > Len(run_dirs)
       THEN /\ status' = "done"
            /\ UNCHANGED <<pc, loc, store, run_idx>>
       ELSE LET name == run_dirs[run_idx]
                parsed == parse_run_dir_name(name)
                device_id == DeviceId(parsed[1])
                base == RunBase(parsed[1], args.tool_tag, parsed[2])
                has_evtx == "EVTX" \in src[name].subdirs
            IN IF device_id = 0
               THEN /\ run_idx' = run_idx + 1
                    /\ UNCHANGED <<pc, loc, store, status>>
               ELSE IF ~dry_run /\ ~WinSubdirsOk(store, base)
               THEN /\ status' = "exception"
                    /\ UNCHANGED <<pc, loc, store, run_idx>>
               ELSE /\ loc' = [run_dir |-> name,
                               device_logical |-> parsed[1],
                               run_id |-> parsed[2],
                               device_id |-> device_id,
                               run_base |-> base,
                               sub |-> IF has_evtx THEN "EVTX" ELSE "",
                               items |-> IF has_evtx
                                         THEN Sorted(src[name].evtx \cup src[name].evtxdirs)
                                         ELSE Sorted(src[name].files),
                               item |-> 1,
                               log_type |-> "",
                               log_files |-> <<>>,
                               ups |-> 1]
                    /\ store' = IF dry_run THEN store ELSE MkWinSubdirs(store, base, 1)
                    /\ pc' = "files"
                    /\ UNCHANGED <<status, run_idx>>
    /\ UNCHANGED <<prog, DEVICE_MAP, src, args, env, db, inv, dry_run,
                   run_dirs, out, hist, q, res>>

\* Faulty variant: only the entries of EVTX count as files.
WinIsFile_EvtxOnly(l, name) == name \in src[l.run_dir].evtx

WinIsFile(l, name) ==
    IF l.sub = "EVTX" THEN name \in src[l.run_dir].evtx ELSE name \in src[l.run_dir].files

\* for src in files_source: ... shutil.copy2(src, dst_raw)
W_NextItem ==
    /\ prog = "windows" /\ status = "running" /\ pc = "files"
    /\ IF ItemsDone(loc)
       THEN /\ pc' = "meta"
            /\ UNCHANGED <<status, store, loc, hist>>
       ELSE LET name == loc.items[loc.item]
            IN IF ~WinIsFile(loc, name)
               THEN /\ loc' = [loc EXCEPT !.item = @ + 1]
                    /\ UNCHANGED <<status, store, pc, hist>>
               ELSE \/ /\ store' = copy_file(store, SrcContent(loc.run_dir, loc.sub, name),
                                             PathJoin(PathJoin(loc.run_base, "RAW_ALL"), name),
                                             dry_run)
                       /\ loc' = [loc EXCEPT !.log_type = classify_log_type(name)]
                       /\ hist' = IF dry_run THEN hist
                                  ELSE [hist EXCEPT !.copied = @ \cup {<<loc.run_dir, name>>}]
                       /\ pc' = "log"
                       /\ status' = status
                    \/ /\ ~dry_run
                       /\ status' = "exception"
                       /\ UNCHANGED <<store, loc, pc, hist>>
    /\ UNCHANGED <<prog, DEVICE_MAP, src, args, env, db, inv, dry_run,
                   run_dirs, run_idx, out, q, res>>

\* if log_type: ... shutil.copy2(src, dst_log); log_files.setdefault(...).append(...)
W_LogCopy ==
    /\ prog = "windows" /\ status = "running" /\ pc = "log"
    /\ LET name == loc.items[loc.item]
       IN IF loc.log_type # ""
          THEN \/ /\ store' = copy_file(store, SrcContent(loc.run_dir, loc.sub, name),
                                        PathJoin(PathJoin(PathJoin(loc.run_base, "LOGS"),
                                                          loc.log_type), name),
                                        dry_run)
                  /\ loc' = [loc EXCEPT
                               !.log_files = AppendLog(@, loc.log_type,
                                                       <<"LOGS", loc.log_type, name>>, 1),
                               !.item = @ + 1]
                  /\ pc' = "files"
                  /\ status' = status
               \/ /\ ~dry_run
                  /\ status' = "exception"
                  /\ UNCHANGED <<store, loc, pc>>
          ELSE /\ loc' = [loc EXCEPT !.item = @ + 1]
               /\ pc' = "files"
               /\ UNCHANGED <<store, status>>
    /\ UNCHANGED <<prog, DEVICE_MAP, src, args, env, db, inv, dry_run,
                   run_dirs, run_idx, out, hist, q, res>>

RECURSIVE SumLens(_, _)
SumLens(log_files, i) ==
    IF i > Len(log_files) THEN 0 ELSE Len(log_files[i][2]) + SumLens(log_files, i + 1)

DigitVal(c) == CHOOSE d \in 0..9 : Chr("0123456789", d + 1) = c

\* int() of a string of digits
RECURSIVE ToInt(_)
ToInt(s) ==
    IF Len(s) = 0 THEN 0
    ELSE 10 * ToInt(SubSeq(s, 1, Len(s) - 1)) + DigitVal(Chr(s, Len(s)))

DaysInMonth(y, m) ==
    IF m \in {4, 6, 9, 11} THEN 30
    ELSE IF m # 2 THEN 31
    ELSE IF (y % 4 = 0 /\ y % 100 # 0) \/ y % 400 = 0 THEN 29 ELSE 28

\* parse_run_id(run_id).isoformat(sep=" "), "" for None
acquisition_time_utc(run_id) ==
    IF /\ Len(run_id) = 15
       /\ SubSeq(run_id, 1, 2) = "20"
       /\ AllDigits(SubSeq(run_id, 3, 8))
       /\ Chr(run_id, 9) = "_"
       /\ AllDigits(SubSeq(run_id, 10, 15))
       /\ ToInt(SubSeq(run_id, 5, 6)) \in 1..12
       /\ ToInt(SubSeq(run_id, 7, 8)) \in
             1..DaysInMonth(ToInt(SubSeq(run_id, 1, 4)), ToInt(SubSeq(run_id, 5, 6)))
       /\ ToInt(SubSeq(run_id, 10, 11)) <= 23
       /\ ToInt(SubSeq(run_id, 12, 13)) <= 59
       /\ ToInt(SubSeq(run_id, 14, 15)) <= 59
    THEN SubSeq(run_id, 1, 4) \o "-" \o SubSeq(run_id, 5, 6) \o "-"
         \o SubSeq(run_id, 7, 8) \o " " \o SubSeq(run_id, 10, 11) \o ":"
         \o SubSeq(run_id, 12, 13) \o ":" \o SubSeq(run_id, 14, 15)
    ELSE ""

WindowsMeta(l) ==
    [kind |-> "meta",
     script_name |-> "m02_windows_logs_02_extract_to_safenet.py",
     script_version |-> "0.2",
     device_logical |-> l.device_logical,
     device_id |-> l.device_id,
     run_id |-> l.run_id,
     tool_tag |-> args.tool_tag,
     source_run_dir |-> l.run_dir,
     target_run_base |-> l.run_base,
     acquisition_time_utc |-> acquisition_time_utc(l.run_id),
     log_files |-> l.log_files,
     total_log_files |-> SumLens(l.log_files, 1)]

\* write_meta(run_info, log_files, dry_run)
W_WriteMeta ==
    /\ prog = "windows" /\ status = "running" /\ pc = "meta"
    /\ store' = write_json(store, MetaPath(loc.run_base), WindowsMeta(loc), dry_run)
    /\ pc' = "upsert"
    /\ UNCHANGED <<prog, DEVICE_MAP, src, args, env, db, inv, dry_run, status,
                   run_dirs, run_idx, loc, out, hist, q, res>>

RowKey(r) == <<r.device_id, r.run_id, r.log_type, r.tool_name>>

\* INSERT ... ON CONFLICT(device_id, run_id, log_type, tool_name) DO UPDATE
UpsertRow(rows, r) == {x \in rows : RowKey(x) # RowKey(r)} \cup {r}

\* upsert_windows_acquisitions: one pass of "for log_type, files in log_files.items()"
W_Upsert ==
    /\ prog = "windows" /\ status = "running" /\ pc = "upsert"
    /\ loc.ups <= Len(loc.log_files)
    /\ db' = IF dry_run THEN db
             ELSE [db EXCEPT !.pending =
                      UpsertRow(@, [device_id |-> loc.device_id,
                                    run_id |-> loc.run_id,
                                    log_type |-> loc.log_files[loc.ups][1],
                                    tool_name |-> args.tool_tag,
                                    source_path |-> loc.run_dir,
                                    target_run_base |-> loc.run_base,
                                    validation_status |-> "PENDING",
                                    notes |-> Len(loc.log_files[loc.ups][2])])]
    /\ loc' = [loc EXCEPT !.ups = @ + 1]
    /\ UNCHANGED <<prog, DEVICE_MAP, src, args, env, store, inv, dry_run, status, pc,
                   run_dirs, run_idx, out, hist, q, res>>

RECURSIVE CommitRows(_, _)
CommitRows(rows, pending) ==
    IF pending = {} THEN rows
    ELSE LET r == CHOOSE x \in pending : TRUE
         IN CommitRows(UpsertRow(rows, r), pending \ {r})

\* if not dry_run: conn.commit(); back in main's loop
W_Commit ==
    /\ prog = "windows" /\ status = "running" /\ pc = "upsert"
    /\ loc.ups > Len(loc.log_files)
    /\ db' = IF dry_run THEN db
             ELSE [rows |-> CommitRows(db.rows, db.pending), pending |-> {}]
    /\ out' = Append(out, [run_dir |-> loc.run_dir,
                           run_base |-> loc.run_base,
                           log_files |-> loc.log_files])
    /\ run_idx' = run_idx + 1
    /\ pc' = "next_run"
    /\ UNCHANGED <<prog, DEVICE_MAP, src, args, env, store, inv, dry_run, status,
                   run_dirs, loc, hist, q, res>>

-----------------------------------------------------------------------------
(* The operator's side *)

\* The tool is run a second time on the same source and dataset root, after the
\* first invocation ended or was killed where it stands.
RunAgain ==
    /\ prog \in {"android", "windows"}
    /\ inv = 1
    /\ inv' = inv + 1
    /\ dry_run' \in BOOLEAN
    /\ hist' = [hist EXCEPT !.ends =
                   IF status = "done"
                   THEN Append(@, [dry_run |-> dry_run, store |-> store,
                                   db |-> db, out |-> out])
                   ELSE @]
    /\ status' = "running"
    /\ pc' = "start"
    /\ run_dirs' = <<>>
    /\ run_idx' = 0
    /\ loc' = NoLoc
    /\ out' = <<>>
    /\ db' = [db EXCEPT !.pending = {}]
    /\ UNCHANGED <<prog, DEVICE_MAP, src, args, env, store, q, res>>

-----------------------------------------------------------------------------

InitAndroid ==
    /\ prog = "android"
    /\ DEVICE_MAP = <<>>
    /\ src \in SrcRoots(AndroidCatalog)
    /\ \E c \in AndroidConfigs : args = c.args /\ env = c.env
    /\ store = EmptyStore
    /\ db = [rows |-> {}, pending |-> {}]
    /\ inv = 1
    /\ dry_run \in BOOLEAN
    /\ status = "running"
    /\ pc = "start"
    /\ run_dirs = <<>>
    /\ run_idx = 0
    /\ loc = NoLoc
    /\ out = <<>>
    /\ hist = NoHist
    /\ q = <<>>
    /\ res = <<>>

InitWindows ==
    /\ prog = "windows"
    /\ DEVICE_MAP = <<>>
    /\ src \in SrcRoots(WindowsCatalog)
    /\ \E c \in WindowsConfigs : args = c.args /\ env = c.env
    /\ store = EmptyStore
    /\ db = [rows |-> {}, pending |-> {}]
    /\ inv = 1
    /\ dry_run \in BOOLEAN
    /\ status = "running"
    /\ pc = "start"
    /\ run_dirs = <<>>
    /\ run_idx = 0
    /\ loc = NoLoc
    /\ out = <<>>
    /\ hist = NoHist
    /\ q = <<>>
    /\ res = <<>>

Init == InitAndroid \/ InitWindows

Next ==
    \/ A_Main
    \/ A_EnterRun
    \/ A_NextItem
    \/ A_CatCopy
    \/ A_WriteMeta
    \/ A_Summary
    \/ W_Main
    \/ W_EnterRun
    \/ W_NextItem
    \/ W_LogCopy
    \/ W_WriteMeta
    \/ W_Upsert
    \/ W_Commit
    \/ RunAgain

Spec == Init /\ [][Next]_vars

-----------------------------------------------------------------------------
(* Properties of the evidence store builders *)

RawPath(run_base, name) == PathJoin(PathJoin(run_base, "RAW_ALL"), name)

HasCopy(st, path, content) == IsFile(st, path) /\ st.files[path] = content

\* The files of a source run the builder is documented to take: for the Windows
\* builder the files of EVTX when that folder exists, else the files of the run folder.
SourceFilesOf(r) ==
    IF prog = "windows" /\ "EVTX" \in src[r].subdirs THEN src[r].evtx ELSE src[r].files

SourceSubOf(r) == IF prog = "windows" /\ "EVTX" \in src[r].subdirs THEN "EVTX" ELSE ""

\* process_run_folder has just returned to main's loop for the run out[Len(out)].
JustBuilt == prog = "android" /\ pc = "next_run" /\ Len(out) > 0

MetaFiles == {p \in DOMAIN store.files : store.files[p].kind = "meta"}

C3_CopyErrorNeverAborts ==
    ~(status = "exception" /\ pc \in {"files", "cat", "log"})

C3_Witness ==
    /\ prog = "android" /\ ~dry_run
    /\ status = "exception" /\ pc = "files"
    /\ loc.run_dir = "samsung_SM-S921B_R1_20250601_120000"
    /\ loc.total_files = 0
    /\ ~IsFile(store, MetaPath(loc.run_base))

Scenario8 ==
    /\ prog = "android"
    /\ DOMAIN src = {"acme_modelX_SN123_20250601_120000"}
    /\ args.script_name = "tool" /\ args.script_version = "v1"
    /\ ~dry_run /\ status = "done"

Built8(run_base) ==
    /\ HasCopy(store, RawPath(run_base, "logcat_main_20250601_120000.txt"),
               SrcContent("acme_modelX_SN123_20250601_120000", "",
                          "logcat_main_20250601_120000.txt"))
    /\ HasCopy(store, RawPath(run_base, "dumpsys_battery_20250601_120000.txt"),
               SrcContent("acme_modelX_SN123_20250601_120000", "",
                          "dumpsys_battery_20250601_120000.txt"))
    /\ IsFile(store, <<run_base[1], run_base[2], run_base[3], "CORE_SYSTEM",
                       "logcat_main_20250601_120000.txt">>)
    /\ IsFile(store, <<run_base[1], run_base[2], run_base[3], "CONNECTIVITY",
                       "dumpsys_battery_20250601_120000.txt">>)
    /\ IsFile(store, MetaPath(run_base))
    /\ store.files[MetaPath(run_base)].total_files = 2

\* C8 (as claimed): the scenario's run is built at store/acme_modelX/tool_v1/20250601_120000.
C8_ScenarioAsClaimed ==
    Scenario8 => Built8(<<"acme_modelX", "tool_v1", "20250601_120000">>)

\* C8 (amended): building acme_modelX_SN123_20250601_120000 with tool tag tool_v1 gives
\* the run at store/acme_modelX_SN123/tool_v1/20250601_120000 (the identity string is
\* kept whole by the raw fallback), both files in RAW_ALL, logcat_main in CORE_SYSTEM,
\* dumpsys_battery in CONNECTIVITY and nowhere else, and total_files = 2.
C8_Scenario ==
    Scenario8 =>
        /\ Built8(<<"acme_modelX_SN123", "tool_v1", "20250601_120000">>)
        /\ Cardinality(DOMAIN store.files) = 5
        /\ \A p \in DOMAIN store.files :
              SubSeq(p, 1, 3) = <<"acme_modelX_SN123", "tool_v1", "20250601_120000">>

C8_Witness == Scenario8 /\ Len(out) = 1 /\ out[1].total_files = 2

\* The first invocation was a completed one and the second is running or has ended.
SecondAfterDone == inv = 2 /\ Len(hist.ends) = 1

\* C9: a second real run of the builder on the same source and target ends with the
\* same files in every directory of the store, the same metadata, the same counts and
\* uncategorized lists as the first, and never fails because a target exists already.
C9_Idempotent ==
    (SecondAfterDone /\ ~hist.ends[1].dry_run /\ ~dry_run) =>
        /\ ~(status = "exception" /\ pc \in {"start", "next_run"})
        /\ status = "done" =>
              /\ store = hist.ends[1].store
              /\ out = hist.ends[1].out
              /\ db.rows = hist.ends[1].db.rows

C9_Witness ==
    /\ SecondAfterDone /\ ~hist.ends[1].dry_run /\ ~dry_run /\ status = "done"
    /\ prog = "android"
    /\ Len(out) = 2
    /\ out[1].total_files = 2
    /\ out[2].uncategorized_files # <<>>

DryRunFrame == (dry_run /\ dry_run' /\ inv' = inv) => (store' = store /\ db' = db)

DryRunReports ==
    (SecondAfterDone /\ status = "done" /\ hist.ends[1].dry_run # dry_run) =>
        out = hist.ends[1].out

\* C10: a dry-run invocation creates, copies and writes nothing under the store root
\* and writes nothing to the database, and it reports the same category of every
\* source file and the same counts as a real run on the same source.
C10_DryRun == [][DryRunFrame]_vars /\ []DryRunReports

C10_Witness ==
    /\ SecondAfterDone /\ status = "done" /\ dry_run /\ ~hist.ends[1].dry_run
    /\ store # EmptyStore
    /\ Len(out) >= 1
    /\ Len(out[1].assigned) = 2

\* The copies of source files the store holds, as <run_base>/<subdir>/<name>.
CopiedFiles == {p \in DOMAIN store.files : Len(p) = 5 /\ store.files[p].kind = "raw"}

SubdirsPresent(st, run_base) ==
    \A i \in 1..Len(RUN_SUBDIRS) : PathJoin(run_base, RUN_SUBDIRS[i]) \in st.dirs

\* A step that puts a copy into a category subdirectory finds the same file
\* already copied into RAW_ALL.
CategoryAfterMirror ==
    \A p \in DOMAIN store'.files :
        (/\ Len(p) = 5 /\ store'.files[p].kind = "raw" /\ p[4] # "RAW_ALL"
         /\ (p \notin DOMAIN store.files \/ store.files[p] # store'.files[p]))
        => /\ HasCopy(store, RawPath(SubSeq(p, 1, 3), p[5]), store'.files[p])
           /\ SubdirsPresent(store, SubSeq(p, 1, 3))

\* C11: in every state of an Android build, a run target that holds a copy of
\* a source file has all five run subdirectories, and each copy in a category
\* subdirectory has a same-named copy in RAW_ALL; a copy enters a category
\* subdirectory only in a step that finds the same file already in RAW_ALL.
C11_DirsThenMirrorThenCategory ==
    /\ [](prog = "android" =>
            \A p \in CopiedFiles :
                /\ SubdirsPresent(store, SubSeq(p, 1, 3))
                /\ IsFile(store, RawPath(SubSeq(p, 1, 3), p[5])))
    /\ [][prog = "android" => CategoryAfterMirror]_vars

C11_Witness ==
    /\ prog = "android" /\ ~dry_run /\ inv = 1
    /\ pc = "files" /\ loc.item = 3
    /\ loc.run_dir = "samsung_SM-S921B_R1_20250601_120000"
    /\ \E p \in CopiedFiles : p[4] = "CORE_SYSTEM" /\ SubSeq(p, 1, 3) = loc.run_base
    /\ Cardinality(CopiedFiles) = 2

-----------------------------------------------------------------------------
(* map_device_logical applied to identity strings under several DEVICE_MAPs *)

\* DEVICE_MAP as shipped (empty), as its commented examples suggest, and two
\* maps whose keys overlap, in both insertion orders.
DeviceMaps ==
    { <<>>,
      << <<"samsung_SM-S921B_R58N123456X", "SpartacusPhone_S24">>,
         <<"samsung_SM-G981B_R58N654321Y", "VagabondoPhone_S20">> >>,
      << <<"samsung_SM-S921B", "LabS24">>, <<"samsung", "AnySamsung">>,
         <<"acme", "AcmeLab">> >>,
      << <<"samsung", "AnySamsung">>, <<"samsung_SM-S921B", "LabS24">>,
         <<"Samsung_GalaxyS24", "Samsung_S20">> >> }

IdentityBrands == {"samsung", "Samsung", "acme"}

IdentityModels == {"SM-S921B", "SM-G981B", "SM-A546B", "GalaxyS24", "xs20", "modelX"}

IdentitySerials == {"R58N123456X", "R58N654321Y", "SN123", "SM-S921B"}

\* <brand>_<model>_<serial> as the capture script names its folders, plus
\* names with fewer tokens.
IdentityStrings ==
    { b \o "_" \o m \o "_" \o sn :
        b \in IdentityBrands, m \in IdentityModels, sn \in IdentitySerials }
    \cup { b \o "_" \o m : b \in IdentityBrands, m \in IdentityModels }
    \cup IdentityBrands \cup {"", "old_dump", "sm-g98x"}

Idle ==
    /\ src = <<>>
    /\ args = <<>>
    /\ env = <<>>
    /\ store = EmptyStore
    /\ db = [rows |-> {}, pending |-> {}]
    /\ inv = 1
    /\ dry_run = FALSE
    /\ status = "running"
    /\ pc = "start"
    /\ run_dirs = <<>>
    /\ run_idx = 0
    /\ loc = NoLoc
    /\ out = <<>>
    /\ hist = NoHist

InitMap ==
    /\ prog = "map"
    /\ DEVICE_MAP \in DeviceMaps
    /\ q \in IdentityStrings
    /\ res = ""
    /\ Idle

M_Apply ==
    /\ prog = "map"
    /\ pc = "start"
    /\ res' = map_device_logical(q)
    /\ pc' = "done"
    /\ status' = "done"
    /\ UNCHANGED <<prog, DEVICE_MAP, src, args, env, store, db, inv, dry_run,
                   run_dirs, run_idx, loc, out, hist, q>>

NextMap == M_Apply

SpecMap == InitMap /\ [][NextMap]_vars

\* The tiers, each stated on its own.
OverrideKeys(s) == {i \in 1..Len(DEVICE_MAP) : StartsWith(s, DEVICE_MAP[i][1])}

ModelToken(s) == IF Len(Split(s, "_")) > 1 THEN Lower(Split(s, "_")[2]) ELSE ""

FamilyS24(s) == Contains(ModelToken(s), "s24") \/ Contains(Lower(s), "sm-s92")

FamilyS20(s) == Contains(ModelToken(s), "s20") \/ Contains(Lower(s), "sm-g98")

FamilyMatch(s) == FamilyS24(s) \/ FamilyS20(s)

VendorMatch(s) == Lower(Split(s, "_")[1]) = "samsung"

Mapped == prog = "map" /\ pc = "done"

\* C7: an identity string that starts with a DEVICE_MAP key is mapped to the
\* value of the first such key, whatever heuristic or vendor rule it also
\* matches; the family heuristic decides only when no key matches, the vendor
\* rule only when neither key nor family heuristic matches, and the raw
\* identity is returned only when nothing matches.
C7_TierPrecedence ==
    Mapped =>
        /\ OverrideKeys(q) # {} =>
              \E i \in OverrideKeys(q) :
                  /\ \A j \in OverrideKeys(q) : i <= j
                  /\ res = DEVICE_MAP[i][2]
        /\ (OverrideKeys(q) = {} /\ FamilyMatch(q)) =>
              res = (IF FamilyS24(q) THEN "Samsung_S24" ELSE "Samsung_S20")
        /\ (OverrideKeys(q) = {} /\ ~FamilyMatch(q) /\ VendorMatch(q)) =>
              /\ StartsWith(res, "Samsung_")
              /\ res # "Samsung_S24" /\ res # "Samsung_S20"
        /\ (OverrideKeys(q) = {} /\ ~FamilyMatch(q) /\ ~VendorMatch(q)) =>
              res = q

C7_Witness ==
    /\ Mapped
    /\ q = "samsung_SM-S921B_R58N123456X"
    /\ OverrideKeys(q) # {} /\ FamilyS24(q) /\ VendorMatch(q)
    /\ res = "SpartacusPhone_S24"

\* The identity strings of three tokens that share brand and model with s and
\* differ from it in the serial number only.
Siblings(s) ==
    {t \in IdentityStrings :
        /\ Len(Split(s, "_")) = 3 /\ Len(Split(t, "_")) = 3
        /\ Split(t, "_")[1] = Split(s, "_")[1]
        /\ Split(t, "_")[2] = Split(s, "_")[2]
        /\ t # s}

FamilyOrVendorLabel(name) == StartsWith(name, "Samsung_")

\* The serial number of s carries the hardware code of a family.
CodeInSerial(s) ==
    \E sig \in {"sm-s92", "sm-g98"} : Contains(Lower(Split(s, "_")[3]), sig)

\* C25 (as claimed): two identity strings with the same brand and model that
\* differ only in the serial number resolve to the same subject when either
\* of them resolves to a family label or to a vendor label.
C25_SerialIndependent ==
    Mapped =>
        \A t \in Siblings(q) :
            \A mapped \in {map_device_logical(t)} :
                (FamilyOrVendorLabel(res) \/ FamilyOrVendorLabel(mapped)) => mapped = res

\* C25: two identity strings with the same brand and model that differ only
\* in the serial number resolve to the same subject when neither starts with
\* a key of DEVICE_MAP, neither serial number carries a family's hardware
\* code, and the family heuristic or the vendor rule matches one of them.
C25_SerialIndependentBelowOverrides ==
    Mapped =>
        \A t \in Siblings(q) :
            ( /\ OverrideKeys(q) = {} /\ OverrideKeys(t) = {}
              /\ ~CodeInSerial(q) /\ ~CodeInSerial(t)
              /\ FamilyMatch(q) \/ VendorMatch(q) \/ FamilyMatch(t) \/ VendorMatch(t) )
            => /\ map_device_logical(t) = res
               /\ FamilyOrVendorLabel(res)

\* A family label under a DEVICE_MAP that has keys, none of them matching.
C25_Witness ==
    /\ Mapped
    /\ DEVICE_MAP # <<>>
    /\ q = "Samsung_SM-G981B_SN123"
    /\ OverrideKeys(q) = {}
    /\ res = "Samsung_S20"
    /\ Siblings(q) # {}
    /\ \E t \in Siblings(q) : OverrideKeys(t) = {} /\ ~CodeInSerial(t)

\* A key of DEVICE_MAP that holds the serial number takes one of two siblings
\* out of its family.
C25_OverrideSplitsFamily ==
    /\ Mapped
    /\ q = "samsung_SM-S921B_R58N123456X"
    /\ res = "SpartacusPhone_S24"
    /\ map_device_logical("samsung_SM-S921B_R58N654321Y") = "Samsung_S24"

\* A hardware code in the serial number puts a device of another model into
\* the family.
C25_CodeInSerialJoinsFamily ==
    /\ Mapped
    /\ DEVICE_MAP = <<>>
    /\ q = "acme_modelX_SM-S921B"
    /\ res = "Samsung_S24"
    /\ map_device_logical("acme_modelX_SN123") = "acme_modelX_SN123"

\* No key of DEVICE_MAP, no family signature and no vendor name is found in s.
NoTierMatches(s) ==
    /\ \A i \in 1..Len(DEVICE_MAP) :
          Len(DEVICE_MAP[i][1]) > Len(s) \/ SubSeq(s, 1, Len(DEVICE_MAP[i][1])) # DEVICE_MAP[i][1]
    /\ \A low \in {Lower(s)}, token \in {ModelToken(s)} :
          /\ \A sig \in {"sm-s92", "sm-g98"} : ~Contains(low, sig)
          /\ \A sig \in {"s24", "s20"} : ~Contains(token, sig)
          /\ ~StartsWith(low \o "_", "samsung_")

\* C14: map_device_logical yields a name for every identity string, the empty
\* string and strings without underscore included, and yields the identity
\* string itself when no override, family heuristic or vendor rule matches.
C14_AlwaysMapsRawFallback ==
    /\ (prog = "map" /\ pc = "start") => map_device_logical(q) \in STRING
    /\ Mapped => /\ res \in STRING
                 /\ NoTierMatches(q) => res = q

C14_Witness ==
    /\ Mapped
    /\ q = "old_dump" /\ NoTierMatches(q)
    /\ DEVICE_MAP # <<>>
    /\ res = "old_dump"

-----------------------------------------------------------------------------
(* validation_android.py: locating the store location of a run *)

MaxDevices == 3

DevNames == <<"Samsung_S24", "Samsung_S20", "acme_modelX_SN123", "Samsung_SM-A546B", "old_dump">>

RECURSIVE LStrip(_)
LStrip(s) == IF Len(s) > 0 /\ Chr(s, 1) = " " THEN LStrip(SubSeq(s, 2, Len(s))) ELSE s

RECURSIVE RStrip(_)
RStrip(s) ==
    IF Len(s) > 0 /\ Chr(s, Len(s)) = " " THEN RStrip(SubSeq(s, 1, Len(s) - 1)) ELSE s

\* str.strip() on blanks
Strip(s) == RStrip(LStrip(s))

\* dict.get(key, default) on a JSON object
MetaGet(m, key, default) == IF key \in DOMAIN m THEN m[key] ELSE default

AdbGet(items, key) ==
    IF \E kv \in items : kv[1] = key
    THEN (CHOOSE kv \in items : kv[1] = key)[2]
    ELSE ""

extract_serial_from_bms(brand_model_serial) ==
    LET parts == Split(brand_model_serial, "_")
    IN IF Len(parts) >= 3 THEN parts[Len(parts)]
       ELSE IF Len(parts) = 2 THEN parts[2]
       ELSE ""

\* Faulty variant: the substring tests turned around.
SerialMatches_Reversed(meta, serial) ==
    LET adb_info == MetaGet(meta, "adb_info", [is_dict |-> TRUE, items |-> {}])
        ro_serial == IF adb_info.is_dict
                     THEN Strip(AdbGet(adb_info.items, "ro.serialno")) ELSE ""
        meta_bms == Strip(MetaGet(meta, "brand_model_serial", ""))
    IN \/ serial # "" /\ ro_serial # "" /\ Contains(serial, ro_serial)
       \/ serial # "" /\ meta_bms # "" /\ Contains(serial, meta_bms)

\* The two tests that put a candidate into `matched`.
SerialMatches(meta, serial) ==
    LET adb_info == MetaGet(meta, "adb_info", [is_dict |-> TRUE, items |-> {}])
        ro_serial == IF adb_info.is_dict
                     THEN Strip(AdbGet(adb_info.items, "ro.serialno")) ELSE ""
        meta_bms == Strip(MetaGet(meta, "brand_model_serial", ""))
    IN \/ serial # "" /\ ro_serial # "" /\ Contains(ro_serial, serial)
       \/ serial # "" /\ meta_bms # "" /\ Contains(meta_bms, serial)

\* for device_dir in dataset_root.iterdir(): ... candidates.append(run_dir)
RECURSIVE FindCandidates(_, _, _, _, _)
FindCandidates(st, order, script_tag, run_id, i) ==
    IF i > Len(order) THEN <<>>
    ELSE LET device_dir == <<order[i]>>
             run_dir == PathJoin(PathJoin(device_dir, script_tag), run_id)
             rest == FindCandidates(st, order, script_tag, run_id, i + 1)
         IN IF device_dir \notin st.dirs THEN rest
            ELSE IF run_dir \in st.dirs THEN <<run_dir>> \o rest
            ELSE rest

\* Faulty variant: a candidate whose metadata cannot be parsed is kept.
RECURSIVE FindMatched_KeepsUnreadable(_, _, _, _)
FindMatched_KeepsUnreadable(st, candidates, serial, i) ==
    IF i > Len(candidates) THEN <<>>
    ELSE LET c == candidates[i]
             meta_path == MetaPath(c)
             rest == FindMatched_KeepsUnreadable(st, candidates, serial, i + 1)
         IN IF ~(IsFile(st, meta_path) \/ meta_path \in st.dirs) THEN rest
            ELSE IF ~IsFile(st, meta_path) THEN rest
            ELSE IF st.files[meta_path].kind # "meta" THEN <<c>> \o rest
            ELSE IF SerialMatches(st.files[meta_path], serial) THEN <<c>> \o rest
            ELSE rest

\* for c in candidates: ... matched.append(c)
RECURSIVE FindMatched(_, _, _, _)
FindMatched(st, candidates, serial, i) ==
    IF i > Len(candidates) THEN <<>>
    ELSE LET c == candidates[i]
             meta_path == MetaPath(c)
             rest == FindMatched(st, candidates, serial, i + 1)
         IN IF ~(IsFile(st, meta_path) \/ meta_path \in st.dirs) THEN rest
            ELSE IF ~IsFile(st, meta_path) THEN rest
            ELSE IF st.files[meta_path].kind # "meta" THEN rest
            ELSE IF SerialMatches(st.files[meta_path], serial) THEN <<c>> \o rest
            ELSE rest

NoPath == [found |-> FALSE, path |-> <<>>]

FoundPath(p) == [found |-> TRUE, path |-> p]

\* Faulty variant: with several matches, the first one is returned.
find_run_base_by_runid_and_serial_First(st, order, script_tag, run_id, serial) ==
    LET candidates == FindCandidates(st, order, script_tag, run_id, 1)
        matched == FindMatched(st, candidates, serial, 1)
    IN IF Len(candidates) = 0
       THEN [run_base |-> NoPath,
             warnings |-> <<[reason |-> "no_candidate", run_id |-> run_id, n |-> 0]>>]
       ELSE IF Len(candidates) = 1
       THEN [run_base |-> FoundPath(candidates[1]), warnings |-> <<>>]
       ELSE IF Len(matched) >= 1
       THEN [run_base |-> FoundPath(matched[1]), warnings |-> <<>>]
       ELSE [run_base |-> NoPath,
             warnings |-> <<[reason |-> "no_match", run_id |-> run_id,
                             n |-> Len(candidates)]>>]

find_run_base_by_runid_and_serial(st, order, script_tag, run_id, serial) ==
    LET candidates == FindCandidates(st, order, script_tag, run_id, 1)
        matched == FindMatched(st, candidates, serial, 1)
    IN IF Len(candidates) = 0
       THEN [run_base |-> NoPath,
             warnings |-> <<[reason |-> "no_candidate", run_id |-> run_id, n |-> 0]>>]
       ELSE IF Len(candidates) = 1
       THEN [run_base |-> FoundPath(candidates[1]), warnings |-> <<>>]
       ELSE IF Len(matched) = 1
       THEN [run_base |-> FoundPath(matched[1]), warnings |-> <<>>]
       ELSE IF Len(matched) = 0
       THEN [run_base |-> NoPath,
             warnings |-> <<[reason |-> "no_match", run_id |-> run_id,
                             n |-> Len(candidates)]>>]
       ELSE [run_base |-> NoPath,
             warnings |-> <<[reason |-> "ambiguous", run_id |-> run_id,
                             n |-> Len(matched)]>>]

\* Metadata files as a store can hold them: written by the builder with or
\* without adb properties, by another tool without brand_model_serial, or
\* with an adb_info that is not an object.
FindMetas ==
    { [kind |-> "meta", brand_model_serial |-> "samsung_SM-S921B_R1",
       has_adb_info |-> FALSE, adb_info |-> [is_dict |-> TRUE, items |-> {}]],
      [kind |-> "meta", brand_model_serial |-> "samsung_SM-S921B_R12",
       has_adb_info |-> TRUE,
       adb_info |-> [is_dict |-> TRUE, items |-> {<<"ro.serialno", "R12 ">>}]],
      [kind |-> "meta", brand_model_serial |-> "acme_R1x_X9",
       has_adb_info |-> TRUE,
       adb_info |-> [is_dict |-> TRUE, items |-> {<<"ro.serialno", "X9">>}]],
      [kind |-> "meta", has_adb_info |-> TRUE,
       adb_info |-> [is_dict |-> TRUE, items |-> {<<"ro.serialno", "R1">>}]],
      [kind |-> "meta", brand_model_serial |-> "samsung_SM-G981B_R1",
       has_adb_info |-> TRUE, adb_info |-> [is_dict |-> FALSE, items |-> {}]] }

\* What one entry under the dataset root can be.
DevKinds ==
    { [entry |-> "file"], [entry |-> "norun"], [entry |-> "nometa"],
      [entry |-> "badjson"] }
    \cup { [entry |-> "meta", meta |-> m] : m \in FindMetas }

FindTag == "android_log_dump_0.2"

FindRunId == "20250601_120000"

FindSerials == {"", "R1", "R12", "X9"}

RECURSIVE FindStore(_, _)
FindStore(kinds, i) ==
    IF i = 0 THEN [dirs |-> {<<>>}, files |-> <<>>]
    ELSE LET st == FindStore(kinds, i - 1)
             d == <<DevNames[i]>>
             run == <<DevNames[i], FindTag, FindRunId>>
             k == kinds[i]
         IN IF k.entry = "file" THEN WriteFile(st, d, SrcContent("", "", DevNames[i]))
            ELSE IF k.entry = "norun"
                 THEN Mkdir(st, <<DevNames[i], FindTag, "20240101_000000">>)
            ELSE IF k.entry = "nometa" THEN Mkdir(st, Append(run, "RAW_ALL"))
            ELSE IF k.entry = "badjson"
                 THEN WriteFile(Mkdir(st, Append(run, "META")), MetaPath(run),
                                [kind |-> "garbage"])
            ELSE WriteFile(Mkdir(st, Append(run, "META")), MetaPath(run), k.meta)

\* Path.iterdir() yields the entries in no particular order.
IterOrders ==
    { [i \in 1..MaxDevices |-> DevNames[i]],
      [i \in 1..MaxDevices |-> DevNames[MaxDevices + 1 - i]] }

NoFind == [run_base |-> NoPath, warnings |-> <<>>]

InitFind ==
    /\ prog = "find"
    /\ DEVICE_MAP = <<>>
    /\ src = <<>>
    /\ args = <<>>
    /\ env = <<>>
    /\ \E kinds \in [1..MaxDevices -> DevKinds] : store = FindStore(kinds, MaxDevices)
    /\ db = [rows |-> {}, pending |-> {}]
    /\ inv = 1
    /\ dry_run = FALSE
    /\ status = "running"
    /\ pc = "start"
    /\ run_dirs = <<>>
    /\ run_idx = 0
    /\ loc = NoLoc
    /\ out = <<>>
    /\ hist = NoHist
    /\ \E serial \in FindSerials, order \in IterOrders :
          q = [script_tag |-> FindTag, run_id |-> FindRunId, serial |-> serial,
               order |-> order]
    /\ res = NoFind

F_Find ==
    /\ prog = "find"
    /\ pc = "start"
    /\ res' = find_run_base_by_runid_and_serial(store, q.order, q.script_tag,
                                                q.run_id, q.serial)
    /\ pc' = "done"
    /\ status' = "done"
    /\ UNCHANGED <<prog, DEVICE_MAP, src, args, env, store, db, inv, dry_run,
                   run_dirs, run_idx, loc, out, hist, q>>

NextFind == F_Find

SpecFind == InitFind /\ [][NextFind]_vars

Searched == prog = "find" /\ pc = "done"

\* Every <store>/*/<tool_tag>/<run_id> directory.
CandidateSet ==
    { c \in store.dirs : Len(c) = 3 /\ c[2] = q.script_tag /\ c[3] = q.run_id }

ReadableMeta(c) ==
    /\ MetaPath(c) \in DOMAIN store.files
    /\ store.files[MetaPath(c)].kind = "meta"

RecordedRoSerial(c) ==
    LET m == store.files[MetaPath(c)]
    IN IF "adb_info" \in DOMAIN m /\ m.adb_info.is_dict
       THEN Strip(AdbGet(m.adb_info.items, "ro.serialno")) ELSE ""

RecordedIdentity(c) ==
    LET m == store.files[MetaPath(c)]
    IN IF "brand_model_serial" \in DOMAIN m THEN Strip(m.brand_model_serial) ELSE ""

\* The serial a candidate's metadata records.
RecordedSerial(c) ==
    IF RecordedRoSerial(c) # "" THEN RecordedRoSerial(c)
    ELSE extract_serial_from_bms(RecordedIdentity(c))

\* The query serial is found in what the candidate's metadata records.
KeyMatches(c) ==
    /\ q.serial # ""
    /\ \/ \E i \in 1..(Len(RecordedRoSerial(c)) - Len(q.serial) + 1) :
             SubSeq(RecordedRoSerial(c), i, i + Len(q.serial) - 1) = q.serial
       \/ \E i \in 1..(Len(RecordedIdentity(c)) - Len(q.serial) + 1) :
             SubSeq(RecordedIdentity(c), i, i + Len(q.serial) - 1) = q.serial

Survivors == {c \in CandidateSet : ReadableMeta(c) /\ KeyMatches(c)}

TwoDistinct ==
    /\ Cardinality(CandidateSet) = 2
    /\ \A c \in CandidateSet : ReadableMeta(c)
    /\ \A c, d \in CandidateSet : c # d => RecordedSerial(c) # RecordedSerial(d)

C6_NeverPicksAmbiguous ==
    Searched =>
        /\ res.run_base.found <=>
              \/ Cardinality(CandidateSet) = 1
              \/ Cardinality(CandidateSet) > 1 /\ Cardinality(Survivors) = 1
        /\ res.run_base.found =>
              /\ res.run_base.path \in CandidateSet
              /\ Cardinality(CandidateSet) > 1 => res.run_base.path \in Survivors
        /\ ~res.run_base.found =>
              /\ Len(res.warnings) = 1
              /\ res.warnings[1].reason =
                    (IF CandidateSet = {} THEN "no_candidate"
                     ELSE IF Survivors = {} THEN "no_match" ELSE "ambiguous")
        /\ Cardinality(Survivors) > 1 => ~res.run_base.found

C6_Witness ==
    /\ Searched
    /\ Cardinality(CandidateSet) = 3
    /\ Cardinality(Survivors) = 2
    /\ ~res.run_base.found
    /\ res.warnings[1].reason = "ambiguous"

-----------------------------------------------------------------------------
(* m01_android_adb_04_validate_coherence.py: EVENTI_ANDROID against the store *)

\* Absolute paths are sequences of components; the store's paths are relative
\* to StoreRoot.  Paths are normalised and free of links, so that
\* Path.resolve() returns them unchanged.
StoreRoot == <<"C:", "SAFENET", "DataSetGlobal", "android_adb_logs">>

IsUnder(root, p) == Len(p) >= Len(root) /\ SubSeq(p, 1, Len(root)) = root

RelativeTo(root, p) == SubSeq(p, Len(root) + 1, Len(p))

\* Path.exists()
PathExists(st, outside, p) ==
    IF IsUnder(StoreRoot, p)
    THEN RelativeTo(StoreRoot, p) \in st.dirs \/ IsFile(st, RelativeTo(StoreRoot, p))
    ELSE p \in DOMAIN outside

\* Path.is_dir()
PathIsDir(st, p) == IsUnder(StoreRoot, p) /\ RelativeTo(StoreRoot, p) \in st.dirs

\* Path.name
PathName(p) == IF Len(p) = 0 THEN "" ELSE p[Len(p)]

parse_run_id_from_path(path) == PathName(Parent(Parent(path)))

\* None is modelled by "".
parse_device_logical_from_path(dataset_root, path) ==
    IF ~IsUnder(dataset_root, path) THEN ""
    ELSE IF Len(RelativeTo(dataset_root, path)) < 2 THEN ""
    ELSE RelativeTo(dataset_root, path)[1]

\* re.match(r"^(20\d{2})(\d{2})(\d{2})_(\d{2})(\d{2})(\d{2})$", run_id); <<>> is None.
parse_run_id(run_id) ==
    IF /\ Len(run_id) = 15
       /\ SubSeq(run_id, 1, 2) = "20"
       /\ AllDigits(SubSeq(run_id, 3, 8))
       /\ Chr(run_id, 9) = "_"
       /\ AllDigits(SubSeq(run_id, 10, 15))
    THEN <<SubSeq(run_id, 1, 4), SubSeq(run_id, 5, 6), SubSeq(run_id, 7, 8),
           SubSeq(run_id, 10, 11), SubSeq(run_id, 12, 13), SubSeq(run_id, 14, 15)>>
    ELSE <<>>

RECURSIVE SkipBlanks(_, _)
SkipBlanks(s, i) == IF i <= Len(s) /\ Chr(s, i) = " " THEN SkipBlanks(s, i + 1) ELSE i

\* re.match(r"^(20\d{2}-\d{2}-\d{2})\s+\d{2}:\d{2}:\d{2}", ts); "" is None.
date_from_timestamp_utc(ts) ==
    LET t == SkipBlanks(ts, 11)
    IN IF /\ Len(ts) >= 19
          /\ SubSeq(ts, 1, 2) = "20"
          /\ AllDigits(SubSeq(ts, 3, 4))
          /\ Chr(ts, 5) = "-"
          /\ AllDigits(SubSeq(ts, 6, 7))
          /\ Chr(ts, 8) = "-"
          /\ AllDigits(SubSeq(ts, 9, 10))
          /\ t > 11
          /\ Len(ts) >= t + 7
          /\ AllDigits(SubSeq(ts, t, t + 1))
          /\ Chr(ts, t + 2) = ":"
          /\ AllDigits(SubSeq(ts, t + 3, t + 4))
          /\ Chr(ts, t + 5) = ":"
          /\ AllDigits(SubSeq(ts, t + 6, t + 7))
       THEN SubSeq(ts, 1, 10)
       ELSE ""

max_bytes == 5000000

RECURSIVE JoinLines(_, _)
JoinLines(lines, i) ==
    IF i > Len(lines) THEN "" ELSE lines[i] \o "\n" \o JoinLines(lines, i + 1)

RECURSIVE ScanLines(_, _, _, _)
ScanLines(title, content, i, read_bytes) ==
    IF i > Len(content.lines) THEN FALSE
    ELSE IF Contains(content.lines[i] \o "\n", title) THEN TRUE
    ELSE IF read_bytes + content.line_bytes[i] >= max_bytes THEN FALSE
    ELSE ScanLines(title, content, i + 1, read_bytes + content.line_bytes[i])

\* Faulty variant: the whole file is searched whatever its size.
title_in_file_WholeFile(title, st, outside, file_path) ==
    IF IsUnder(StoreRoot, file_path) /\ ~IsFile(st, RelativeTo(StoreRoot, file_path))
    THEN FALSE
    ELSE LET content == IF IsUnder(StoreRoot, file_path)
                        THEN st.files[RelativeTo(StoreRoot, file_path)]
                        ELSE outside[file_path]
         IN Contains(JoinLines(content.lines, 1), title)

\* A text file is [kind, lines, line_bytes, size]: the text of each line and
\* the number of bytes the line takes in the file.
title_in_file(title, st, outside, file_path) ==
    IF IsUnder(StoreRoot, file_path) /\ ~IsFile(st, RelativeTo(StoreRoot, file_path))
    THEN FALSE
    ELSE LET content == IF IsUnder(StoreRoot, file_path)
                        THEN st.files[RelativeTo(StoreRoot, file_path)]
                        ELSE outside[file_path]
         IN IF content.size <= max_bytes
            THEN Contains(JoinLines(content.lines, 1), title)
            ELSE ScanLines(title, content, 1, 0)

\* One printed line of a record's report.
Line(check, level) == [check |-> check, level |-> level]

\* 2. path under dataset_root?
CheckContainment(dataset_root, file_path) ==
    IF IsUnder(dataset_root, file_path)
    THEN [lines |-> <<Line("containment", "OK")>>, ok |-> TRUE]
    ELSE [lines |-> <<Line("containment", "ERR")>>, ok |-> FALSE]

\* Faulty variant: a device id without a registry entry fails the record.
CheckIdentity_MissingFails(dataset_root, device_labels, rec, file_path) ==
    LET device_logical == parse_device_logical_from_path(dataset_root, file_path)
    IN IF device_logical = ""
       THEN [lines |-> <<Line("identity", "ERR")>>, ok |-> FALSE]
       ELSE IF rec.device_id \notin DOMAIN device_labels
       THEN [lines |-> <<Line("identity_path", "OK"), Line("identity", "WARN")>>,
             ok |-> FALSE]
       ELSE IF device_logical # device_labels[rec.device_id]
       THEN [lines |-> <<Line("identity_path", "OK"), Line("identity", "ERR")>>,
             ok |-> FALSE]
       ELSE [lines |-> <<Line("identity_path", "OK"), Line("identity", "OK")>>,
             ok |-> TRUE]

\* 3. device_logical from the path against DEVICE_MASTER.device_label
CheckIdentity(dataset_root, device_labels, rec, file_path) ==
    LET device_logical == parse_device_logical_from_path(dataset_root, file_path)
    IN IF device_logical = ""
       THEN [lines |-> <<Line("identity", "ERR")>>, ok |-> FALSE]
       ELSE IF rec.device_id \notin DOMAIN device_labels
       THEN [lines |-> <<Line("identity_path", "OK"), Line("identity", "WARN")>>,
             ok |-> TRUE]
       ELSE IF device_logical # device_labels[rec.device_id]
       THEN [lines |-> <<Line("identity_path", "OK"), Line("identity", "ERR")>>,
             ok |-> FALSE]
       ELSE [lines |-> <<Line("identity_path", "OK"), Line("identity", "OK")>>,
             ok |-> TRUE]

\* Faulty variant: the hour is compared along with the date.
CheckTemporal_HourToo(rec, file_path) ==
    LET run_id == parse_run_id_from_path(file_path)
        parsed_run == parse_run_id(run_id)
        date_from_run == parsed_run[1] \o "-" \o parsed_run[2] \o "-" \o parsed_run[3]
        date_from_ts == date_from_timestamp_utc(rec.timestamp_utc)
    IN IF parsed_run = <<>> THEN [lines |-> <<Line("temporal", "ERR")>>, ok |-> FALSE]
       ELSE IF date_from_ts = ""
       THEN [lines |-> <<Line("temporal", "ERR")>>, ok |-> FALSE]
       ELSE IF date_from_run \o " " \o parsed_run[4] # SubSeq(rec.timestamp_utc, 1, 13)
       THEN [lines |-> <<Line("temporal", "ERR")>>, ok |-> FALSE]
       ELSE [lines |-> <<Line("temporal", "OK")>>, ok |-> TRUE]

\* 4. date of the run id against date of timestamp_utc
CheckTemporal(rec, file_path) ==
    LET run_id == parse_run_id_from_path(file_path)
        parsed_run == parse_run_id(run_id)
        date_from_run == parsed_run[1] \o "-" \o parsed_run[2] \o "-" \o parsed_run[3]
        date_from_ts == date_from_timestamp_utc(rec.timestamp_utc)
    IN IF parsed_run = <<>> THEN [lines |-> <<Line("temporal", "ERR")>>, ok |-> FALSE]
       ELSE IF date_from_ts = ""
       THEN [lines |-> <<Line("temporal", "ERR")>>, ok |-> FALSE]
       ELSE IF date_from_run # date_from_ts
       THEN [lines |-> <<Line("temporal", "ERR")>>, ok |-> FALSE]
       ELSE [lines |-> <<Line("temporal", "OK")>>, ok |-> TRUE]

\* 5. title found in the file?
CheckContent(a, st, outside, rec, file_path) ==
    IF a.skip_title_check \/ ~PathExists(st, outside, file_path)
    THEN [lines |-> <<>>, ok |-> TRUE]
    ELSE IF rec.title # "" /\ title_in_file(rec.title, st, outside, file_path)
    THEN [lines |-> <<Line("content", "OK")>>, ok |-> TRUE]
    ELSE [lines |-> <<Line("content", "ERR")>>, ok |-> FALSE]

\* Faulty variant: only the last check decides the record's result.
CheckRecord_LastCheck(a, st, e, rec) ==
    LET file_path == rec.source_file
        c2 == CheckContainment(a.dataset_root, file_path)
        c3 == CheckIdentity(a.dataset_root, e.device_labels, rec, file_path)
        c4 == CheckTemporal(rec, file_path)
        c5 == CheckContent(a, st, e.outside, rec, file_path)
    IN IF rec.source_file = <<>>
       THEN [lines |-> <<Line("source_file", "ERR")>>, record_ok |-> FALSE]
       ELSE IF ~PathExists(st, e.outside, file_path)
       THEN [lines |-> <<Line("existence", "ERR")>>, record_ok |-> FALSE]
       ELSE [lines |-> <<Line("existence", "OK")>> \o c2.lines \o c3.lines
                       \o c4.lines \o c5.lines,
             record_ok |-> c5.ok]

\* The body of main's loop for one row.
CheckRecord(a, st, e, rec) ==
    LET file_path == rec.source_file
        c2 == CheckContainment(a.dataset_root, file_path)
        c3 == CheckIdentity(a.dataset_root, e.device_labels, rec, file_path)
        c4 == CheckTemporal(rec, file_path)
        c5 == CheckContent(a, st, e.outside, rec, file_path)
    IN IF rec.source_file = <<>>
       THEN [lines |-> <<Line("source_file", "ERR")>>, record_ok |-> FALSE]
       ELSE IF ~PathExists(st, e.outside, file_path)
       THEN [lines |-> <<Line("existence", "ERR")>>, record_ok |-> FALSE]
       ELSE [lines |-> <<Line("existence", "OK")>> \o c2.lines \o c3.lines
                       \o c4.lines \o c5.lines,
             record_ok |-> c2.ok /\ c3.ok /\ c4.ok /\ c5.ok]

RECURSIVE SelectRows(_, _, _)
SelectRows(table, a, i) ==
    IF i > Len(table) THEN <<>>
    ELSE IF /\ a.device_id # 0 => table[i].device_id = a.device_id
            /\ a.id_min # 0 => table[i].android_event_id >= a.id_min
            /\ a.id_max # 0 => table[i].android_event_id <= a.id_max
         THEN <<table[i]>> \o SelectRows(table, a, i + 1)
         ELSE SelectRows(table, a, i + 1)

\* SELECT ... FROM EVENTI_ANDROID WHERE ... ORDER BY android_event_id LIMIT n;
\* the table is kept in android_event_id order, an absent option is 0.
QueryRows(table, a) ==
    LET sel == SelectRows(table, a, 1)
    IN IF a.limit # 0 /\ a.limit < Len(sel) THEN SubSeq(sel, 1, a.limit) ELSE sel

V_Main ==
    /\ prog = "coherence" /\ status = "running" /\ pc = "start"
    /\ IF ~PathIsDir(store, args.dataset_root)
       THEN /\ status' = "exception"
            /\ UNCHANGED <<pc, res>>
       ELSE /\ res' = [rows |-> QueryRows(db.rows, args), total |-> 0,
                       ok_count |-> 0, fail_count |-> 0, reports |-> <<>>,
                       exit_code |-> -1]
            /\ pc' = "rows"
            /\ UNCHANGED status
    /\ UNCHANGED <<prog, DEVICE_MAP, src, args, env, store, db, inv, dry_run,
                   run_dirs, run_idx, loc, out, hist, q>>

V_CheckRecord ==
    /\ prog = "coherence" /\ status = "running" /\ pc = "rows"
    /\ res.total < Len(res.rows)
    /\ LET rec == res.rows[res.total + 1]
           r == CheckRecord(args, store, env, rec)
       IN res' = [res EXCEPT
                    !.total = @ + 1,
                    !.ok_count = IF r.record_ok THEN @ + 1 ELSE @,
                    !.fail_count = IF r.record_ok THEN @ ELSE @ + 1,
                    !.reports = Append(@, [rec |-> rec, lines |-> r.lines,
                                           result |-> IF r.record_ok THEN "OK"
                                                      ELSE "FAIL"])]
    /\ UNCHANGED <<prog, DEVICE_MAP, src, args, env, store, db, inv, dry_run,
                   status, pc, run_dirs, run_idx, loc, out, hist, q>>

V_Summary ==
    /\ prog = "coherence" /\ status = "running" /\ pc = "rows"
    /\ res.total = Len(res.rows)
    /\ res' = [res EXCEPT !.exit_code = IF res.fail_count > 0 THEN 1 ELSE 0]
    /\ pc' = "done"
    /\ status' = "done"
    /\ UNCHANGED <<prog, DEVICE_MAP, src, args, env, store, db, inv, dry_run,
                   run_dirs, run_idx, loc, out, hist, q>>

MaxRecords == 2

CohRun == <<"Samsung_S24", "android_log_dump_0.2", "20250601_120000">>

CohLogcat == StoreRoot \o CohRun \o <<"CORE_SYSTEM", "logcat_main_20250601_120000.txt">>

CohBattery == StoreRoot \o CohRun \o <<"CONNECTIVITY", "dumpsys_battery_20250601_120000.txt">>

CohBig == StoreRoot \o CohRun \o <<"RAW_ALL", "bugreport_20250601_120000.txt">>

CohOutside == <<"C:", "Temp", "20250601_120000", "CORE_SYSTEM", "logcat_main_20250601_120000.txt">>

RECURSIVE SumBytes(_, _)
SumBytes(line_bytes, i) ==
    IF i > Len(line_bytes) THEN 0 ELSE line_bytes[i] + SumBytes(line_bytes, i + 1)

TextFile(lines, line_bytes) ==
    [kind |-> "text", lines |-> lines, line_bytes |-> line_bytes,
     size |-> SumBytes(line_bytes, 1)]

LogcatText == TextFile(<<"I ActivityManager: boot completed", "W Battery: low">>, <<34, 15>>)

\* The store the records point into; `deleted` are the files removed since
\* the records were written.
CohStore(deleted) ==
    LET full == (RelativeTo(StoreRoot, CohLogcat) :> LogcatText)
                @@ (RelativeTo(StoreRoot, CohBattery) :>
                       TextFile(<<"level: 80">>, <<10>>))
                @@ (RelativeTo(StoreRoot, CohBig) :>
                       TextFile(<<"== dumpstate", "I ActivityManager: boot completed",
                                  "W Battery: low">>,
                                <<4999990, 34, 15>>))
    IN [dirs |-> UNION {Ancestors(Parent(x)) : x \in DOMAIN full},
        files |-> [x \in (DOMAIN full) \ deleted |-> full[x]]]

EventRecord(id, ts, dev, title, file) ==
    [android_event_id |-> id, timestamp_utc |-> ts, device_id |-> dev,
     title |-> title, source_file |-> file]

\* Rows of EVENTI_ANDROID, in android_event_id order.
EventCatalog ==
    << EventRecord(1, "2025-06-01 12:00:05", 1, "boot completed", CohLogcat),
       EventRecord(2, "2025-06-01 12:00:07", 1, "level: 80", CohBattery),
       EventRecord(3, "2025-06-01 12:00:09", 1, "", <<>>),
       EventRecord(4, "2025-06-02 00:00:01", 2, "low", CohLogcat),
       EventRecord(5, "2025-06-01 12:00:05", 3, "boot completed", CohOutside),
       EventRecord(6, "2025-06-01T12:00:05", 1, "boot completed", CohBig),
       EventRecord(7, "2025-06-01  12:00:05", 3, "shutdown", StoreRoot \o CohRun),
       EventRecord(8, "2025-06-01 23:59:59", 3, "boot completed", CohLogcat),
       EventRecord(9, "2025-06-01 12:00:06", 1, "Battery: low", CohBig) >>

RECURSIVE PickRows(_, _)
PickRows(ids, i) ==
    IF i > Len(EventCatalog) THEN <<>>
    ELSE IF i \in ids THEN <<EventCatalog[i]>> \o PickRows(ids, i + 1)
    ELSE PickRows(ids, i + 1)

CohArgs ==
    { [dataset_root |-> r, device_id |-> d, id_min |-> lo, id_max |-> 0,
       limit |-> n, skip_title_check |-> s] :
        r \in {StoreRoot}, d \in {0, 1}, lo \in {0, 2}, n \in {0, 1}, s \in BOOLEAN }
    \cup { [dataset_root |-> <<"C:", "SAFENET", "missing">>, device_id |-> 0,
            id_min |-> 0, id_max |-> 5, limit |-> 0, skip_title_check |-> FALSE],
           [dataset_root |-> StoreRoot, device_id |-> 0,
            id_min |-> 0, id_max |-> 5, limit |-> 0, skip_title_check |-> FALSE] }

InitCoh ==
    /\ prog = "coherence"
    /\ DEVICE_MAP = <<>>
    /\ src = <<>>
    /\ args \in CohArgs
    /\ env = [device_labels |-> (1 :> "Samsung_S24") @@ (2 :> "Samsung_S20"),
              outside |-> [x \in {CohOutside} |-> LogcatText]]
    /\ \E deleted \in SUBSET {RelativeTo(StoreRoot, CohLogcat),
                              RelativeTo(StoreRoot, CohBattery)} :
          store = CohStore(deleted)
    /\ \E ids \in SUBSET (1..Len(EventCatalog)) :
          /\ Cardinality(ids) <= MaxRecords
          /\ db = [rows |-> PickRows(ids, 1), pending |-> {}]
    /\ inv = 1
    /\ dry_run = FALSE
    /\ status = "running"
    /\ pc = "start"
    /\ run_dirs = <<>>
    /\ run_idx = 0
    /\ loc = NoLoc
    /\ out = <<>>
    /\ hist = NoHist
    /\ q = <<>>
    /\ res = <<>>

NextCoh == V_Main \/ V_CheckRecord \/ V_Summary

SpecCoh == InitCoh /\ [][NextCoh]_vars

Reported(k) == prog = "coherence" /\ pc \in {"rows", "done"} /\ k \in 1..Len(res.reports)

Attempted(k) == {res.reports[k].lines[i].check : i \in 1..Len(res.reports[k].lines)}

MissingFile(k) ==
    /\ res.reports[k].rec.source_file # <<>>
    /\ ~PathExists(store, env.outside, res.reports[k].rec.source_file)

\* C4: a record whose backing file does not exist is failed on the existence
\* check, and the containment, identity, temporal and (unless switched off)
\* content checks are still attempted on it.
C4_AllChecksAttempted ==
    \A k \in 1..MaxRecords :
        (Reported(k) /\ MissingFile(k)) =>
            /\ Line("existence", "ERR") \in
                  {res.reports[k].lines[i] : i \in 1..Len(res.reports[k].lines)}
            /\ res.reports[k].result = "FAIL"
            /\ {"containment", "identity", "temporal"} \subseteq Attempted(k)
            /\ ~args.skip_title_check => "content" \in Attempted(k)

\* A record with a deleted backing file gets the existence error and nothing else.
C4_OnlyExistenceChecked ==
    \A k \in 1..MaxRecords :
        (Reported(k) /\ MissingFile(k)) =>
            /\ res.reports[k].lines = <<Line("existence", "ERR")>>
            /\ res.reports[k].result = "FAIL"

C4_Witness ==
    /\ Reported(1) /\ MissingFile(1)
    /\ res.reports[1].rec.android_event_id = 1
    /\ pc = "done" /\ res.exit_code = 1

ErrLines(k) ==
    {i \in 1..Len(res.reports[k].lines) : res.reports[k].lines[i].level = "ERR"}

LinesOf(k) == {res.reports[k].lines[i] : i \in 1..Len(res.reports[k].lines)}

\* The record had its file found, so checks 2 to 5 were made on it.
FileChecked(k) ==
    /\ Reported(k)
    /\ res.reports[k].rec.source_file # <<>>
    /\ PathExists(store, env.outside, res.reports[k].rec.source_file)

Subject(k) ==
    parse_device_logical_from_path(args.dataset_root, res.reports[k].rec.source_file)

Registered(k) == res.reports[k].rec.device_id \in DOMAIN env.device_labels

\* C17: in the identity check, a record whose subject recovered from the path
\* differs from the label registered for its device id gets an error and
\* fails; a record whose device id has no registry entry gets a warning, no
\* identity error, and fails only if some check reported an error.
C17_IdentityMismatchErrMissingWarn ==
    \A k \in 1..MaxRecords :
        (FileChecked(k) /\ Subject(k) # "") =>
            /\ (Registered(k) /\ env.device_labels[res.reports[k].rec.device_id] # Subject(k))
                  => /\ Line("identity", "ERR") \in LinesOf(k)
                     /\ res.reports[k].result = "FAIL"
            /\ (Registered(k) /\ env.device_labels[res.reports[k].rec.device_id] = Subject(k))
                  => Line("identity", "OK") \in LinesOf(k)
            /\ ~Registered(k)
                  => /\ Line("identity", "WARN") \in LinesOf(k)
                     /\ Line("identity", "ERR") \notin LinesOf(k)
                     /\ res.reports[k].result = "FAIL" => ErrLines(k) # {}

\* A mismatching record next to a record of an unregistered device that passes.
C17_Witness ==
    /\ prog = "coherence" /\ pc = "done" /\ Len(res.reports) = 2
    /\ FileChecked(1) /\ Registered(1)
    /\ res.reports[1].rec.android_event_id = 4
    /\ Line("identity", "ERR") \in LinesOf(1) /\ res.reports[1].result = "FAIL"
    /\ FileChecked(2) /\ ~Registered(2)
    /\ Line("identity", "WARN") \in LinesOf(2) /\ res.reports[2].result = "OK"

\* The calendar date the run id folder of the record's path starts with.
RunDate(k) ==
    LET run_id == parse_run_id_from_path(res.reports[k].rec.source_file)
    IN IF Len(run_id) < 8 THEN ""
       ELSE SubSeq(run_id, 1, 4) \o "-" \o SubSeq(run_id, 5, 6) \o "-"
            \o SubSeq(run_id, 7, 8)

\* The calendar date the record's timestamp starts with.
TsDate(k) ==
    LET ts == res.reports[k].rec.timestamp_utc
    IN IF Len(ts) < 10 THEN "" ELSE SubSeq(ts, 1, 10)

TemporalPassed(k) == Line("temporal", "OK") \in LinesOf(k)

\* C18, as stated: the temporal check passes exactly when the calendar date
\* of the run id equals the calendar date at the start of the timestamp, and
\* a record that does not pass it fails.
C18_DateEqualityDecides ==
    \A k \in 1..MaxRecords :
        FileChecked(k) =>
            /\ TemporalPassed(k) <=> (RunDate(k) # "" /\ RunDate(k) = TsDate(k))
            /\ ~TemporalPassed(k) => res.reports[k].result = "FAIL"

\* C18, amended: the temporal check passes exactly when the run id has the
\* form 20YYMMDD_HHMMSS, the timestamp starts with 20YY-MM-DD, blanks and
\* HH:MM:SS, and the two calendar dates are equal; which digits the
\* time-of-day parts hold plays no role, and a record that does not pass
\* the check fails.
C18_WellFormedDateEquality ==
    \A k \in 1..MaxRecords :
        FileChecked(k) =>
            /\ TemporalPassed(k) <=>
                  /\ parse_run_id(parse_run_id_from_path(
                                     res.reports[k].rec.source_file)) # <<>>
                  /\ date_from_timestamp_utc(res.reports[k].rec.timestamp_utc) # ""
                  /\ RunDate(k) = TsDate(k)
            /\ ~TemporalPassed(k) =>
                  /\ Line("temporal", "ERR") \in LinesOf(k)
                  /\ res.reports[k].result = "FAIL"

\* A record dated the day after its run next to a record of the run's day
\* taken at another time of day.
C18_Witness ==
    /\ prog = "coherence" /\ pc = "done" /\ Len(res.reports) = 2
    /\ FileChecked(1) /\ res.reports[1].rec.android_event_id = 4
    /\ ~TemporalPassed(1) /\ res.reports[1].result = "FAIL"
    /\ FileChecked(2) /\ res.reports[2].rec.android_event_id = 8
    /\ RunDate(2) = "2025-06-01" /\ res.reports[2].rec.timestamp_utc = "2025-06-01 23:59:59"
    /\ TemporalPassed(2)

\* The record's path names a regular file, and what that file holds.
IsRegular(k) ==
    LET f == res.reports[k].rec.source_file
    IN IF IsUnder(StoreRoot, f) THEN IsFile(store, RelativeTo(StoreRoot, f))
       ELSE f \in DOMAIN env.outside

ContentOf(k) ==
    LET f == res.reports[k].rec.source_file
    IN IF IsUnder(StoreRoot, f) THEN store.files[RelativeTo(StoreRoot, f)]
       ELSE env.outside[f]

\* The lines a scan of a file larger than the budget looks at: up to and
\* including the first line at whose end max_bytes bytes or more were read.
ScannedLines(c) ==
    LET full == {n \in 1..Len(c.lines) :
                    SumBytes(SubSeq(c.line_bytes, 1, n), 1) >= max_bytes}
    IN IF full = {} THEN Len(c.lines)
       ELSE CHOOSE n \in full : \A m \in full : n <= m

TitleFound(k) ==
    LET c == ContentOf(k)
        title == res.reports[k].rec.title
    IN /\ IsRegular(k)
       /\ IF c.size <= max_bytes THEN Contains(JoinLines(c.lines, 1), title)
          ELSE \E i \in 1..ScannedLines(c) : Contains(c.lines[i] \o "\n", title)

\* C19: unless the title check is switched off, a record whose file exists
\* passes the content check only if its title is non-empty and found in the
\* file: in the whole content of a file within the byte budget, in the
\* scanned prefix of a larger file; otherwise it gets a content error and
\* fails. With the check switched off no content line is reported and the
\* record's result is that of the other checks.
C19_ContentCheck ==
    \A k \in 1..MaxRecords :
        FileChecked(k) =>
            IF args.skip_title_check
            THEN /\ "content" \notin Attempted(k)
                 /\ res.reports[k].result = "OK" <=> ErrLines(k) = {}
            ELSE /\ Line("content", "OK") \in LinesOf(k)
                    <=> (res.reports[k].rec.title # "" /\ TitleFound(k))
                 /\ Line("content", "OK") \notin LinesOf(k)
                    => /\ Line("content", "ERR") \in LinesOf(k)
                       /\ res.reports[k].result = "FAIL"

\* Two records of a file larger than the budget: the title of the first lies
\* within the scanned prefix, the title of the second only beyond it.
C19_Witness ==
    /\ prog = "coherence" /\ pc = "done" /\ ~args.skip_title_check
    /\ Len(res.reports) = 2 /\ FileChecked(1) /\ FileChecked(2)
    /\ res.reports[1].rec.android_event_id = 6
    /\ res.reports[2].rec.android_event_id = 9
    /\ ContentOf(2).size > max_bytes /\ ScannedLines(ContentOf(2)) = 2
    /\ Contains(JoinLines(ContentOf(2).lines, 1), res.reports[2].rec.title)
    /\ Line("content", "OK") \in LinesOf(1)
    /\ ErrLines(2) # {}
    /\ \A i \in ErrLines(2) : res.reports[2].lines[i] = Line("content", "ERR")
    /\ res.reports[2].result = "FAIL"

\* The title check switched off on a record whose title is not in its file.
C19_SwitchedOff ==
    /\ prog = "coherence" /\ pc = "done" /\ args.skip_title_check
    /\ Len(res.reports) = 1 /\ FileChecked(1)
    /\ res.reports[1].rec.android_event_id = 9
    /\ ~TitleFound(1) /\ "content" \notin Attempted(1)
    /\ res.reports[1].result = "OK"

-----------------------------------------------------------------------------
(* classify_category called on file names *)

MaxCalls == 2

\* The table as shipped, and two tables in which a prefix of one category is
\* the start of a prefix of another category, in both declaration orders.
PrefixTables ==
    { CATEGORY_PREFIXES,
      << <<"dumpsys_", "CORE_SYSTEM">>, <<"dumpsys_battery_", "CONNECTIVITY">>,
         <<"logcat_", "CORE_SYSTEM">> >>,
      << <<"dumpsys_battery_", "CONNECTIVITY">>, <<"dumpsys_", "CORE_SYSTEM">>,
         <<"dumpsys_batt", "META">> >> }

ClassifyStamp == "20250601_120000.txt"

\* Names as the capture script writes them (<task>_<timestamp>.txt), the same
\* in other letter case, and names that start with no prefix.
ClassifyNames ==
    { CATEGORY_PREFIXES[k][1] \o ClassifyStamp : k \in 1..Len(CATEGORY_PREFIXES) }
    \cup { "LOGCAT_MAIN_" \o ClassifyStamp, "Dmesg_SU_" \o ClassifyStamp,
           "DumpSys_Battery_" \o ClassifyStamp, "dumpsys_batt.txt",
           "dumpsys_meminfo_" \o ClassifyStamp, "dumpsys_", "dmesg", "logcat_main",
           "xlogcat_main_" \o ClassifyStamp, " getprop_" \o ClassifyStamp,
           "notes.txt", "screenshot.png", "" }

InitClassify ==
    /\ prog = "classify"
    /\ DEVICE_MAP = <<>>
    /\ \E table \in PrefixTables, name \in ClassifyNames :
          q = [table |-> table, name |-> name]
    /\ res = <<>>
    /\ Idle

K_Classify ==
    /\ prog = "classify"
    /\ Len(res) < MaxCalls
    /\ res' = Append(res, ClassifyWith(q.table, q.name))
    /\ UNCHANGED <<prog, DEVICE_MAP, src, args, env, store, db, inv, dry_run,
                   status, pc, run_dirs, run_idx, loc, out, hist, q>>

NextClassify == K_Classify

SpecClassify == InitClassify /\ [][NextClassify]_vars

\* The entries of the table whose prefix the lower-cased name starts with.
MatchingEntries ==
    {k \in 1..Len(q.table) :
        Len(q.table[k][1]) <= Len(q.name)
        /\ Lower(SubSeq(q.name, 1, Len(q.table[k][1]))) = q.table[k][1]}

\* C12: every call of classify_category returns the category of the matching
\* entry declared first, and no category when no entry matches; repeated
\* calls return the same category and a call changes nothing but its result.
C12_FirstMatchInOrder ==
    /\ [](prog = "classify" =>
            \A i \in 1..Len(res) :
                /\ MatchingEntries = {} => res[i] = ""
                /\ MatchingEntries # {} =>
                      \E k \in MatchingEntries :
                          /\ \A j \in MatchingEntries : k <= j
                          /\ res[i] = q.table[k][2]
                /\ res[i] = res[1])
    /\ [][prog = "classify" =>
            (q' = q /\ store' = store /\ db' = db /\ DEVICE_MAP' = DEVICE_MAP)]_vars

C12_Witness ==
    /\ prog = "classify" /\ Len(res) = 2
    /\ q.name = "DumpSys_Battery_" \o ClassifyStamp
    /\ q.table[1] = <<"dumpsys_", "CORE_SYSTEM">>
    /\ Cardinality(MatchingEntries) = 2
    /\ res[1] = "CORE_SYSTEM" /\ res[2] = "CORE_SYSTEM"

-----------------------------------------------------------------------------
(* parse_run_folder_name called on folder names *)

\* Folder names: an identity, a separator, a time stamp (well formed, of
\* another century, with impossible month and time, too short, too long, with
\* a letter, with another separator) and what may follow it.
ParseNames ==
    { id \o sep \o stamp \o tail :
        id \in {"", "samsung_SM-S921B_R1", "acme", "a_20250101_000000", "x_y_"},
        sep \in {"_", "-", ""},
        stamp \in {"20250601_120000", "19991231_235959", "20259999_999999",
                   "2025061_120000", "20250601_1200000", "20250601_12000a",
                   "20250601-120000", "30250601_120000"},
        tail \in {"", ".txt", "_"} }

InitParse ==
    /\ prog = "parse"
    /\ DEVICE_MAP = <<>>
    /\ q \in ParseNames
    /\ res = <<>>
    /\ Idle

P_Parse ==
    /\ prog = "parse"
    /\ pc = "start"
    /\ res' = parse_run_folder_name(q)
    /\ pc' = "done"
    /\ status' = "done"
    /\ UNCHANGED <<prog, DEVICE_MAP, src, args, env, store, db, inv, dry_run,
                   run_dirs, run_idx, loc, out, hist, q>>

NextParse == P_Parse

SpecParse == InitParse /\ [][NextParse]_vars

Parsed == prog = "parse" /\ pc = "done"

\* Eight digits, an underscore, six digits.
IsStamp(t) ==
    /\ Len(t) = 15
    /\ \A i \in (1..8) \cup (10..15) : IsDigit(Chr(t, i))
    /\ Chr(t, 9) = "_"

\* The same, of a year 2000 to 2099.
IsStamp20(t) == IsStamp(t) /\ Chr(t, 1) = "2" /\ Chr(t, 2) = "0"

\* The places where the name splits into identity, underscore, time stamp.
SplitsAt(ok(_)) ==
    {k \in 0..(Len(q) - 1) : Chr(q, k + 1) = "_" /\ ok(SubSeq(q, k + 2, Len(q)))}

-----------------------------------------------------------------------------
(* validation_android.py: validate_run and main *)

\* Path.stat().st_size of a file with the given content: a copy has the size
\* of its original, a truncated copy is shorter.
st_size(c) ==
    IF c.kind # "raw" THEN 0
    ELSE Len(c.origin) + Len(c.name)
         - (IF "damage" \in DOMAIN c /\ c.damage = "truncated" THEN 1 ELSE 0)

\* The digest of a file's bytes: two files have the same digest exactly when
\* they have the same content.
sha256_file(c) == <<"sha256", c>>

PathPresent(st, p) == p \in st.dirs \/ IsFile(st, p)

\* raw_files: the names of the regular files directly in RAW_ALL
RawFiles(st, raw_all_dir) ==
    {p[Len(p)] : p \in {f \in DOMAIN st.files : Parent(f) = raw_all_dir}}

\* Faulty variant: the sizes are compared only when hashing is on.
MirrorErrors_SizeWithHash(folder, src_files, st, raw_all_dir, use_hash) ==
    LET Err(name) ==
            LET dst == PathJoin(raw_all_dir, name)
                s == SrcContent(folder, "", name)
            IN IF name \notin RawFiles(st, raw_all_dir)
               THEN <<[error |-> "not_in_raw_all", name |-> name]>>
               ELSE IF use_hash /\ st_size(s) # st_size(st.files[dst])
               THEN <<[error |-> "size", name |-> name]>>
               ELSE IF use_hash /\ sha256_file(s) # sha256_file(st.files[dst])
               THEN <<[error |-> "sha256", name |-> name]>>
               ELSE <<>>
        Acc[k \in 0..Len(src_files)] ==
            IF k = 0 THEN <<>> ELSE Acc[k - 1] \o Err(src_files[k])
    IN Acc[Len(src_files)]

\* validation 1: every source file must be in RAW_ALL, with the same size
\* and, with --hash, the same digest
MirrorErrors(folder, src_files, st, raw_all_dir, use_hash) ==
    LET Err(name) ==
            LET dst == PathJoin(raw_all_dir, name)
                s == SrcContent(folder, "", name)
            IN IF name \notin RawFiles(st, raw_all_dir)
               THEN <<[error |-> "not_in_raw_all", name |-> name]>>
               ELSE IF st_size(s) # st_size(st.files[dst])
               THEN <<[error |-> "size", name |-> name]>>
               ELSE IF use_hash /\ sha256_file(s) # sha256_file(st.files[dst])
               THEN <<[error |-> "sha256", name |-> name]>>
               ELSE <<>>
        Acc[k \in 0..Len(src_files)] ==
            IF k = 0 THEN <<>> ELSE Acc[k - 1] \o Err(src_files[k])
    IN Acc[Len(src_files)]

\* validation 2: a categorised file is expected in its category folder too
CategoryWarnings(src_files, st, run_base) ==
    LET Warn(name) ==
            LET cat == classify_category(name)
                cat_dir == PathJoin(run_base, cat)
            IN IF cat = "" \/ cat = "RAW_ALL" THEN <<>>
               ELSE IF ~PathPresent(st, cat_dir)
               THEN <<[warning |-> "category_dir_missing", name |-> cat]>>
               ELSE IF ~PathPresent(st, PathJoin(cat_dir, name))
               THEN <<[warning |-> "category_file_missing", name |-> name]>>
               ELSE <<>>
        Acc[k \in 0..Len(src_files)] ==
            IF k = 0 THEN <<>> ELSE Acc[k - 1] \o Warn(src_files[k])
    IN Acc[Len(src_files)]

\* validation 3: META/acquisition_meta.json, when there is one
MetaWarnings(src_files, st, run_base, serial) ==
    LET meta_path == MetaPath(run_base)
        meta == st.files[meta_path]
        ro_serial == IF meta.adb_info.is_dict
                     THEN Strip(AdbGet(meta.adb_info.items, "ro.serialno")) ELSE ""
    IN IF ~PathPresent(st, meta_path)
       THEN <<[warning |-> "meta_missing", name |-> ""]>>
       ELSE IF ~IsFile(st, meta_path) \/ meta.kind # "meta"
       THEN <<[warning |-> "meta_unreadable", name |-> ""]>>
       ELSE (IF MetaGet(meta, "total_files", -1) # Len(src_files)
             THEN <<[warning |-> "total_files", name |-> ""]>> ELSE <<>>)
            \o (IF serial # "" /\ ro_serial # "" /\ ~Contains(ro_serial, serial)
                THEN <<[warning |-> "serial", name |-> ro_serial]>> ELSE <<>>)

\* validation 4: files of RAW_ALL that the source run does not have
ExtraWarnings(src_files, st, raw_all_dir) ==
    LET src_names == {src_files[k] : k \in 1..Len(src_files)}
        extra_raw == RawFiles(st, raw_all_dir) \ src_names
    IN IF extra_raw # {}
       THEN <<[warning |-> "extra_raw", name |-> Sorted(extra_raw)]>> ELSE <<>>

validate_run(run_dir, source, st, order, script_tag, use_hash) ==
    LET parsed == parse_run_folder_name(run_dir)
        serial == extract_serial_from_bms(parsed[1])
        info == [run_dir |-> run_dir, brand_model_serial |-> parsed[1],
                 serial |-> serial, run_id |-> parsed[2],
                 run_base |-> NoPath, device_logical |-> ""]
        found == find_run_base_by_runid_and_serial(st, order, script_tag,
                                                   parsed[2], serial)
        run_base == found.run_base.path
        located == [info EXCEPT !.run_base = found.run_base,
                                !.device_logical = PathName(Parent(Parent(run_base)))]
        raw_all_dir == PathJoin(run_base, "RAW_ALL")
        src_files == Sorted(source[run_dir].files)
    IN IF parsed[2] = "unknown_run"
       THEN [info |-> info, errors |-> <<[error |-> "no_run_id", name |-> ""]>>,
             warnings |-> <<>>]
       ELSE IF ~found.run_base.found
       THEN [info |-> info, errors |-> <<[error |-> "no_run_base", name |-> ""]>>,
             warnings |-> found.warnings]
       ELSE IF ~PathPresent(st, raw_all_dir)
       THEN [info |-> located, errors |-> <<[error |-> "no_raw_all", name |-> ""]>>,
             warnings |-> found.warnings]
       ELSE [info |-> located,
             errors |-> MirrorErrors(run_dir, src_files, st, raw_all_dir, use_hash),
             warnings |-> found.warnings
                          \o CategoryWarnings(src_files, st, run_base)
                          \o MetaWarnings(src_files, st, run_base, serial)
                          \o ExtraWarnings(src_files, st, raw_all_dir)]

\* if errors: any_error = True
RunFailed(result) == result.errors # <<>>

\* main, up to the loop over the run folders; SystemExit(message) is exit status 1
S_Main ==
    /\ prog = "validate" /\ status = "running" /\ pc = "start"
    /\ IF ~env.android_root_is_dir \/ <<>> \notin store.dirs
       THEN /\ res' = [res EXCEPT !.exit_code = 1]
            /\ pc' = "fatal"
            /\ status' = "done"
            /\ UNCHANGED run_dirs
       ELSE IF DOMAIN src = {}
       THEN /\ res' = [res EXCEPT !.exit_code = 1]
            /\ pc' = "no_runs"
            /\ status' = "done"
            /\ UNCHANGED run_dirs
       ELSE /\ run_dirs' = Sorted(DOMAIN src)
            /\ pc' = "runs"
            /\ UNCHANGED <<status, res>>
    /\ UNCHANGED <<prog, DEVICE_MAP, src, args, env, store, db, inv, dry_run,
                   run_idx, loc, out, hist, q>>

\* main: one turn of the loop over the run folders
S_ValidateRun ==
    /\ prog = "validate" /\ status = "running" /\ pc = "runs"
    /\ res.total_runs < Len(run_dirs)
    /\ LET result == validate_run(run_dirs[res.total_runs + 1], src, store, env.order,
                                  args.script_name \o "_" \o args.script_version,
                                  args.hash)
       IN res' = [res EXCEPT
                    !.total_runs = @ + 1,
                    !.any_error = @ \/ RunFailed(result),
                    !.ok_runs = IF RunFailed(result) THEN @ ELSE @ + 1,
                    !.results = Append(@, result)]
    /\ UNCHANGED <<prog, DEVICE_MAP, src, args, env, store, db, inv, dry_run,
                   status, pc, run_dirs, run_idx, loc, out, hist, q>>

\* main: the summary and the exit status
S_Summary ==
    /\ prog = "validate" /\ status = "running" /\ pc = "runs"
    /\ res.total_runs = Len(run_dirs)
    /\ res' = [res EXCEPT !.exit_code = IF res.any_error THEN 1 ELSE 0]
    /\ pc' = "done"
    /\ status' = "done"
    /\ UNCHANGED <<prog, DEVICE_MAP, src, args, env, store, db, inv, dry_run,
                   run_dirs, run_idx, loc, out, hist, q>>

\* What the store holds for one source run: nothing, the run as the builder
\* leaves it, or that run with a file of the mirror lost, cut short or altered,
\* with a file added to the mirror, or without the mirror folder.
TargetKinds ==
    {"none", "built", "missing_file", "truncated", "flipped", "extra", "no_raw_all"}

ValTag == "android_log_dump_0.2"

\* The device folder a run of the source root sits under in the store: where
\* the builder puts it when DEVICE_MAP is empty.
ValDevice(brand_model_serial) ==
    IF StartsWith(brand_model_serial, "samsung_SM-S921B") THEN "Samsung_S24"
    ELSE brand_model_serial

BuiltRun(folder, kind) ==
    LET parsed == parse_run_folder_name(folder)
        run_base == RunBase(ValDevice(parsed[1]), ValTag, parsed[2])
        files == Sorted(AndroidCatalog[folder].files)
        kept == IF kind = "missing_file" /\ files # <<>> THEN Tail(files) ELSE files
        names == {kept[k] : k \in 1..Len(kept)}
        Copy(name) ==
            IF name = files[1] /\ kind \in {"truncated", "flipped"}
            THEN [kind |-> "raw", origin |-> folder, sub |-> "", name |-> name,
                  damage |-> kind]
            ELSE SrcContent(folder, "", name)
        subdirs == {RUN_SUBDIRS[k] : k \in 1..Len(RUN_SUBDIRS)}
                   \ (IF kind = "no_raw_all" THEN {"RAW_ALL"} ELSE {})
        mirror == IF kind = "no_raw_all" THEN <<>>
                  ELSE [p \in {RawPath(run_base, n) : n \in names} |->
                           Copy(PathName(p))]
        sorted == [p \in {PathJoin(PathJoin(run_base, classify_category(n)), n) :
                            n \in {m \in names : classify_category(m)
                                                    \notin {"", "RAW_ALL"}}} |->
                      SrcContent(folder, "", PathName(p))]
        extra == IF kind = "extra"
                 THEN RawPath(run_base, "Notes.txt") :> SrcContent("", "", "Notes.txt")
                 ELSE <<>>
        meta == MetaPath(run_base) :>
                   [kind |-> "meta", brand_model_serial |-> parsed[1],
                    run_id |-> parsed[2], total_files |-> Len(files),
                    has_adb_info |-> FALSE,
                    adb_info |-> [is_dict |-> TRUE, items |-> {}]]
    IN IF kind = "none" THEN EmptyStore
       ELSE [dirs |-> UNION {Ancestors(PathJoin(run_base, d)) : d \in subdirs},
             files |-> meta @@ extra @@ sorted @@ mirror]

\* Every run of the catalogue in every state the store can hold it in.
BuiltRuns ==
    [folder \in DOMAIN AndroidCatalog |-> [kind \in TargetKinds |-> BuiltRun(folder, kind)]]

\* The store after the runs of a source root were written one after the other.
ValStore(kinds) ==
    LET folders == Sorted(DOMAIN kinds)
        Acc[k \in 0..Len(folders)] ==
            IF k = 0 THEN [dirs |-> {<<>>}, files |-> <<>>]
            ELSE LET run == BuiltRuns[folders[k]][kinds[folders[k]]]
                 IN [dirs |-> Acc[k - 1].dirs \cup run.dirs,
                     files |-> run.files @@ Acc[k - 1].files]
    IN Acc[Len(folders)]

\* The device folders in the order Path.iterdir() yields them on the dataset root.
ValOrder == <<"Samsung_S24", "acme_modelX_SN123", "empty", "old_dump">>

NoRuns == [any_error |-> FALSE, total_runs |-> 0, ok_runs |-> 0, results |-> <<>>,
           exit_code |-> -1]

InitValidate ==
    /\ prog = "validate"
    /\ DEVICE_MAP = <<>>
    /\ src \in SrcRoots(AndroidCatalog)
    /\ args \in {[script_name |-> "android_log_dump", script_version |-> "0.2",
                  hash |-> h] : h \in BOOLEAN}
    /\ \E is_dir \in BOOLEAN :
          /\ ~is_dir => DOMAIN src = {}
          /\ env = [android_root_is_dir |-> is_dir, order |-> ValOrder]
    /\ \/ \E kinds \in [DOMAIN src -> TargetKinds] : store = ValStore(kinds)
       \/ store = EmptyStore
    /\ db = [rows |-> {}, pending |-> {}]
    /\ inv = 1
    /\ dry_run = FALSE
    /\ status = "running"
    /\ pc = "start"
    /\ run_dirs = <<>>
    /\ run_idx = 0
    /\ loc = NoLoc
    /\ out = <<>>
    /\ hist = NoHist
    /\ q = <<>>
    /\ res = NoRuns

NextValidate == S_Main \/ S_ValidateRun \/ S_Summary

SpecValidate == InitValidate /\ [][NextValidate]_vars

\* Both validators, each from its own initial states.
SpecValidators ==
    (InitCoh \/ InitValidate) /\ [][NextCoh \/ NextValidate]_vars

FailedRecords == {k \in 1..Len(res.reports) : res.reports[k].result = "FAIL"}

ErrorRuns == {k \in 1..Len(res.results) : res.results[k].errors # <<>>}

WarnedRuns == {k \in 1..Len(res.results) : res.results[k].warnings # <<>>}

CoherenceExit ==
    (prog = "coherence" /\ pc = "done") =>
        /\ FailedRecords # {} => res.exit_code = 1
        /\ FailedRecords = {} => res.exit_code = 0

\* C16: the coherence validator exits with 1 when a record failed and with 0
\* when every examined record passed; the store-level validator exits with 1
\* when a run reported an error and with 0 when no run reported an error,
\* warnings alone never giving 1.
C16_ExitCodes ==
    /\ CoherenceExit
    /\ (prog = "validate" /\ pc \in {"no_runs", "done"}) =>
          /\ ErrorRuns # {} => res.exit_code = 1
          /\ ErrorRuns = {} => res.exit_code = 0

\* What holds instead: the exit codes are as stated once the store-level
\* validator has found a run folder to validate; on a source root without
\* run folders it reports a warning and exits with 1.
C16_ExitCodesWithRuns ==
    /\ CoherenceExit
    /\ (prog = "validate" /\ pc = "done") =>
          /\ ErrorRuns # {} => res.exit_code = 1
          /\ ErrorRuns = {} => res.exit_code = 0
    /\ (prog = "validate" /\ pc = "no_runs") => res.exit_code = 1

C16_Witness ==
    /\ prog = "validate" /\ pc = "no_runs" /\ status = "done"
    /\ env.android_root_is_dir /\ <<>> \in store.dirs
    /\ ErrorRuns = {} /\ res.exit_code = 1

\* A run with warnings only, and a record with a warning only, still give 0.
C16_WarningsOnly ==
    \/ /\ prog = "validate" /\ pc = "done" /\ WarnedRuns # {} /\ ErrorRuns = {}
       /\ res.exit_code = 0
    \/ /\ prog = "coherence" /\ pc = "done" /\ res.exit_code = 0
       /\ \E k \in 1..Len(res.reports) :
             Line("identity", "WARN") \in
                {res.reports[k].lines[i] : i \in 1..Len(res.reports[k].lines)}

\* The run of result k had its target located, and the target has a RAW_ALL.
Located(k) ==
    /\ prog = "validate" /\ pc \in {"runs", "done"} /\ k \in 1..Len(res.results)
    /\ res.results[k].info.run_base.found

MirrorOf(k) == PathJoin(res.results[k].info.run_base.path, "RAW_ALL")

SourceOf(k, name) == SrcContent(res.results[k].info.run_dir, "", name)

\* The source file has no same-named file in RAW_ALL, or one of another size,
\* or, with hashing on, one of another content.
BadCopy(k, name) ==
    LET dst == PathJoin(MirrorOf(k), name)
    IN \/ ~IsFile(store, dst)
       \/ st_size(store.files[dst]) # st_size(SourceOf(k, name))
       \/ args.hash /\ store.files[dst] # SourceOf(k, name)

ErrorsOf(k) == {res.results[k].errors[i] : i \in 1..Len(res.results[k].errors)}

WarningsOf(k) == {res.results[k].warnings[i] : i \in 1..Len(res.results[k].warnings)}

ExtraFiles(k) ==
    {p[Len(p)] : p \in {f \in DOMAIN store.files : Parent(f) = MirrorOf(k)}}
    \ src[res.results[k].info.run_dir].files

\* C20: for a source run whose target was located, an error is reported for
\* every source file without a same-named file in RAW_ALL or with one of
\* another size or, with hashing on, another digest (a target without RAW_ALL
\* gets one error for the whole run), and for no other file; files that are
\* only in RAW_ALL are reported in a warning, never in an error, and a run
\* whose source files all have their copy is counted as OK.
C20_MirrorErrorsExtraWarning ==
    \A k \in 1..MaxRuns :
        Located(k) =>
            IF ~PathPresent(store, MirrorOf(k))
            THEN ErrorsOf(k) = {[error |-> "no_raw_all", name |-> ""]}
            ELSE /\ \A name \in src[res.results[k].info.run_dir].files :
                       BadCopy(k, name) <=>
                           \E e \in ErrorsOf(k) :
                               /\ e.name = name
                               /\ e.error \in {"not_in_raw_all", "size", "sha256"}
                 /\ \A e \in ErrorsOf(k) :
                       e.name \in src[res.results[k].info.run_dir].files
                 /\ ExtraFiles(k) # {} <=>
                       \E w \in WarningsOf(k) :
                           w.warning = "extra_raw" /\ w.name = Sorted(ExtraFiles(k))
                 /\ (\A name \in src[res.results[k].info.run_dir].files :
                        ~BadCopy(k, name)) => ~RunFailed(res.results[k])

\* A run that lost a file of its mirror next to a run whose mirror holds a
\* file more than the source.
C20_Witness ==
    /\ prog = "validate" /\ pc = "done" /\ Len(res.results) = 2
    /\ Located(1) /\ Located(2)
    /\ \E e \in ErrorsOf(1) : e.error = "not_in_raw_all" /\ BadCopy(1, e.name)
    /\ ExtraFiles(2) = {"Notes.txt"} /\ ErrorsOf(2) = {}
    /\ res.ok_runs = 1 /\ res.exit_code = 1

\* With hashing on, a copy of the right size and another content is an error.
C20_DigestError ==
    /\ prog = "validate" /\ pc = "done" /\ args.hash
    /\ \E k \in 1..Len(res.results) :
          Located(k) /\ \E e \in ErrorsOf(k) : e.error = "sha256"

-----------------------------------------------------------------------------
(* m01_android_adb_03: the probe loader of EVENTI_ANDROID *)

MaxLimit == 2

RECURSIVE SkipDigits(_, _)
SkipDigits(s, i) == IF i <= Len(s) /\ IsDigit(Chr(s, i)) THEN SkipDigits(s, i + 1) ELSE i

\* Faulty variant: the timestamp is written in the ISO form, with a T between
\* date and time.
parse_logcat_time_line_IsoStamp(line, year, default_date) ==
    LET t == SkipBlanks(line, 6)
        u == t + 8
        f == IF Chr(line, u) = "." /\ SkipDigits(line, u + 1) > u + 1
             THEN SkipDigits(line, u + 1) ELSE u
        v == SkipBlanks(line, f)
    IN IF /\ Len(line) >= 5
          /\ AllDigits(SubSeq(line, 1, 2))
          /\ Chr(line, 3) = "-"
          /\ AllDigits(SubSeq(line, 4, 5))
          /\ t > 6
          /\ Len(line) >= t + 7
          /\ AllDigits(SubSeq(line, t, t + 1))
          /\ Chr(line, t + 2) = ":"
          /\ AllDigits(SubSeq(line, t + 3, t + 4))
          /\ Chr(line, t + 5) = ":"
          /\ AllDigits(SubSeq(line, t + 6, t + 7))
          /\ v > f
       THEN <<year \o "-" \o SubSeq(line, 1, 2) \o "-" \o SubSeq(line, 4, 5)
                   \o "T" \o SubSeq(line, t, t + 7),
              SubSeq(line, v, Len(line))>>
       ELSE <<default_date \o "T00:00:00", line>>

\* re.match(r"^(\d{2})-(\d{2})\s+(\d{2}):(\d{2}):(\d{2})(?:\.\d+)?\s+(.*)$", line);
\* the line comes without its newline, the result is <<ts_sql, rest>>.
parse_logcat_time_line(line, year, default_date) ==
    LET t == SkipBlanks(line, 6)
        u == t + 8
        f == IF Chr(line, u) = "." /\ SkipDigits(line, u + 1) > u + 1
             THEN SkipDigits(line, u + 1) ELSE u
        v == SkipBlanks(line, f)
    IN IF /\ Len(line) >= 5
          /\ AllDigits(SubSeq(line, 1, 2))
          /\ Chr(line, 3) = "-"
          /\ AllDigits(SubSeq(line, 4, 5))
          /\ t > 6
          /\ Len(line) >= t + 7
          /\ AllDigits(SubSeq(line, t, t + 1))
          /\ Chr(line, t + 2) = ":"
          /\ AllDigits(SubSeq(line, t + 3, t + 4))
          /\ Chr(line, t + 5) = ":"
          /\ AllDigits(SubSeq(line, t + 6, t + 7))
          /\ v > f
       THEN <<year \o "-" \o SubSeq(line, 1, 2) \o "-" \o SubSeq(line, 4, 5)
                   \o " " \o SubSeq(line, t, t + 7),
              SubSeq(line, v, Len(line))>>
       ELSE <<default_date \o " 00:00:00", line>>

\* SELECT device_id, device_label FROM DEVICE_MASTER, as label -> device_id;
\* device_labels is the table as device_id -> label.
load_device_map(device_labels) ==
    [label \in {device_labels[d] : d \in DOMAIN device_labels} \ {""} |->
        CHOOSE d \in DOMAIN device_labels : device_labels[d] = label]

LoadTag == "android_log_dump_0.2"

LoadLogA == "logcat_main_20250601_120000.txt"

LoadLogB == "logcat_main_20250601_120500.txt"

\* The run folders a dataset root may hold, in sorted() order, with the
\* files of each.
LoadCatalog ==
    << [run_base |-> <<"Samsung_S20", LoadTag, "20250602_080000">>,
        files |-> (<<"CORE_SYSTEM", LoadLogA>> :>
                      TextFile(<<"--------- beginning of main",
                                 "06-02 08:00:01.500 I ActivityManager: start",
                                 "06-02 08:00:02 W Battery: low">>, <<28, 44, 31>>))],
       [run_base |-> <<"Samsung_S24", LoadTag, "20250601_120000">>,
        files |-> (<<"CORE_SYSTEM", LoadLogA>> :>
                      TextFile(<<"06-01 12:00:05.123 I ActivityManager: boot", "",
                                 "--------- beginning of main">>, <<43, 1, 28>>))
                  @@ (<<"CORE_SYSTEM", LoadLogB>> :>
                      TextFile(<<"05-31 23:59:58.000 I ActivityManager: idle",
                                 "06-01 12:00:07.000 D ActivityManager: up">>,
                               <<43, 41>>))
                  @@ (<<"CORE_SYSTEM", "dumpsys_activity_20250601_120000.txt">> :>
                      TextFile(<<"ACTIVITY MANAGER">>, <<17>>))],
       [run_base |-> <<"Samsung_S24", LoadTag, "20250603_090000">>,
        files |-> (<<"CONNECTIVITY", "dumpsys_battery_20250603_090000.txt">> :>
                      TextFile(<<"level: 80">>, <<10>>))],
       [run_base |-> <<"Samsung_S24", LoadTag, "old_dump">>,
        files |-> (<<"CORE_SYSTEM", LoadLogA>> :>
                      TextFile(<<"06-01 12:00:05.123 I ActivityManager: boot">>, <<43>>))],
       [run_base |-> <<"Unknown_dev", LoadTag, "20250601_120000">>,
        files |-> (<<"CORE_SYSTEM", LoadLogA>> :>
                      TextFile(<<"06-01 12:00:05.123 I ActivityManager: boot">>, <<43>>))] >>

LoadFileOrder == <<LoadLogA, LoadLogB>>

\* The store holding the catalogue's runs `ks`.
LoadStore(ks) ==
    LET paths == UNION {{LoadCatalog[k].run_base \o x : x \in DOMAIN LoadCatalog[k].files} :
                           k \in ks}
        content(p) == LET k == CHOOSE k \in ks : IsUnder(LoadCatalog[k].run_base, p)
                      IN LoadCatalog[k].files[RelativeTo(LoadCatalog[k].run_base, p)]
    IN [dirs |-> UNION {Ancestors(Parent(p)) : p \in paths} \cup {<<>>},
        files |-> [p \in paths |-> content(p)]]

\* sorted() over the three directory levels below dataset_root
find_runs(st) ==
    LET all == [k \in 1..Len(LoadCatalog) |-> LoadCatalog[k].run_base]
    IN SelectSeq(all, LAMBDA r : r \in st.dirs)

\* sorted(core_system_dir.glob("logcat_main_*.txt"))
logcat_files(st, core_system_dir) ==
    LET names == SelectSeq(LoadFileOrder,
                           LAMBDA n : IsFile(st, PathJoin(core_system_dir, n)))
    IN [i \in 1..Len(names) |-> PathJoin(core_system_dir, names[i])]

\* cur.execute("INSERT INTO EVENTI_ANDROID ..."): a row of the open transaction
insert_event(d, timestamp_utc, device_id, title, source_file) ==
    [d EXCEPT !.pending =
        Append(@, EventRecord(Len(d.rows) + Len(d.pending) + 1, timestamp_utc,
                              device_id, title, source_file))]

L_Main ==
    /\ prog = "load" /\ status = "running" /\ pc = "start"
    /\ IF ~PathIsDir(store, args.dataset_root)
       THEN /\ status' = "exception"
            /\ UNCHANGED <<pc, run_dirs, run_idx, res>>
       ELSE IF find_runs(store) = <<>>
       THEN /\ status' = "exception"
            /\ UNCHANGED <<pc, run_dirs, run_idx, res>>
       ELSE /\ run_dirs' = find_runs(store)
            /\ run_idx' = 1
            /\ pc' = "next_run"
            /\ res' = [total_inserted |-> 0]
            /\ UNCHANGED status
    /\ UNCHANGED <<prog, DEVICE_MAP, src, args, env, store, db, inv, dry_run,
                   loc, out, hist, q>>

\* The head of the loop over runs, down to per_run_inserted = 0.
L_EnterRun ==
    /\ prog = "load" /\ status = "running" /\ pc = "next_run"
    /\ run_idx <= Len(run_dirs)
    /\ LET run_base == run_dirs[run_idx]
           device_logical == PathName(Parent(Parent(run_base)))
           run_id == PathName(run_base)
           device_map == load_device_map(env.device_labels)
           parsed_run == parse_run_id(run_id)
           core_system_dir == PathJoin(run_base, "CORE_SYSTEM")
       IN IF \/ device_logical \notin DOMAIN device_map
             \/ parsed_run = <<>>
             \/ core_system_dir \notin store.dirs
             \/ logcat_files(store, core_system_dir) = <<>>
          THEN /\ run_idx' = run_idx + 1
               /\ UNCHANGED <<pc, loc>>
          ELSE /\ loc' = [run_base |-> run_base,
                          device_id |-> device_map[device_logical],
                          year |-> parsed_run[1],
                          default_date |-> parsed_run[1] \o "-" \o parsed_run[2]
                                              \o "-" \o parsed_run[3],
                          logcat_files |-> logcat_files(store, core_system_dir),
                          file |-> 1, line |-> 1, per_run_inserted |-> 0]
               /\ pc' = "lines"
               /\ UNCHANGED run_idx
    /\ UNCHANGED <<prog, DEVICE_MAP, src, args, env, store, db, inv, dry_run,
                   status, run_dirs, out, hist, q, res>>

\* One line of the open logcat file.
L_Line ==
    /\ prog = "load" /\ status = "running" /\ pc = "lines"
    /\ loc.file <= Len(loc.logcat_files)
    /\ loc.line <= Len(store.files[loc.logcat_files[loc.file]].lines)
    /\ LET log_path == loc.logcat_files[loc.file]
           line == store.files[log_path].lines[loc.line]
           p == parse_logcat_time_line(line, loc.year, loc.default_date)
       IN IF args.grep # "" /\ ~Contains(line \o "\n", args.grep)
          THEN /\ loc' = [loc EXCEPT !.line = @ + 1]
               /\ UNCHANGED <<db, res, pc>>
          ELSE /\ db' = IF dry_run THEN db
                        ELSE insert_event(db, p[1], loc.device_id, p[2],
                                          StoreRoot \o log_path)
               /\ res' = [res EXCEPT !.total_inserted = @ + 1]
               /\ IF loc.per_run_inserted + 1 >= args.limit_per_run
                  THEN /\ loc' = [loc EXCEPT !.per_run_inserted = @ + 1]
                       /\ pc' = "end_run"
                  ELSE /\ loc' = [loc EXCEPT !.per_run_inserted = @ + 1,
                                             !.line = @ + 1]
                       /\ UNCHANGED pc
    /\ UNCHANGED <<prog, DEVICE_MAP, src, args, env, store, inv, dry_run, status,
                   run_dirs, run_idx, out, hist, q>>

\* The open file is exhausted: the limit is looked at again, then the next file.
L_EndFile ==
    /\ prog = "load" /\ status = "running" /\ pc = "lines"
    /\ loc.file <= Len(loc.logcat_files)
    /\ loc.line > Len(store.files[loc.logcat_files[loc.file]].lines)
    /\ IF \/ loc.per_run_inserted >= args.limit_per_run
          \/ loc.file = Len(loc.logcat_files)
       THEN /\ pc' = "end_run"
            /\ UNCHANGED loc
       ELSE /\ loc' = [loc EXCEPT !.file = @ + 1, !.line = 1]
            /\ UNCHANGED pc
    /\ UNCHANGED <<prog, DEVICE_MAP, src, args, env, store, db, inv, dry_run, status,
                   run_dirs, run_idx, out, hist, q, res>>

\* print(f"  [INFO] Eventi inseriti per questa run: ..."), on to the next run
L_EndRun ==
    /\ prog = "load" /\ status = "running" /\ pc = "end_run"
    /\ out' = Append(out, [run_base |-> loc.run_base,
                           per_run_inserted |-> loc.per_run_inserted])
    /\ run_idx' = run_idx + 1
    /\ pc' = "next_run"
    /\ UNCHANGED <<prog, DEVICE_MAP, src, args, env, store, db, inv, dry_run, status,
                   run_dirs, loc, hist, q, res>>

\* After the last run: if not args.dry_run: conn.commit(); conn.close()
L_Commit ==
    /\ prog = "load" /\ status = "running" /\ pc = "next_run"
    /\ run_idx > Len(run_dirs)
    /\ db' = IF dry_run THEN db
             ELSE [rows |-> db.rows \o db.pending, pending |-> <<>>]
    /\ pc' = "done"
    /\ status' = "done"
    /\ UNCHANGED <<prog, DEVICE_MAP, src, args, env, store, inv, dry_run,
                   run_dirs, run_idx, loc, out, hist, q, res>>

\* The invocation is aborted where it stands: the connection goes away with
\* its open transaction, whose rows are rolled back.
L_Abort ==
    /\ prog \in {"load", "load_pc"} /\ status = "running" /\ pc # "start"
    /\ status' = "killed"
    /\ db' = [db EXCEPT !.pending = <<>>]
    /\ UNCHANGED <<prog, DEVICE_MAP, src, args, env, store, inv, dry_run, pc,
                   run_dirs, run_idx, loc, out, hist, q, res>>

\* The operator runs the coherence validator on the same dataset root and
\* database once the loader has ended.
LoadThenValidate ==
    /\ prog = "load" /\ status = "done"
    /\ prog' = "coherence"
    /\ args' = [dataset_root |-> args.dataset_root, device_id |-> 0, id_min |-> 0,
                id_max |-> 0, limit |-> 0, skip_title_check |-> FALSE]
    /\ status' = "running"
    /\ pc' = "start"
    /\ loc' = NoLoc
    /\ res' = <<>>
    /\ UNCHANGED <<DEVICE_MAP, src, env, store, db, inv, dry_run, run_dirs, run_idx,
                   out, hist, q>>

LoadArgs ==
    { [dataset_root |-> StoreRoot, grep |-> g, limit_per_run |-> n] :
        g \in {"", "ActivityManager", "Battery"}, n \in 0..MaxLimit }

InitLoad ==
    /\ prog = "load"
    /\ DEVICE_MAP = <<>>
    /\ src = <<>>
    /\ args \in LoadArgs
    /\ env = [device_labels |-> (1 :> "Samsung_S24") @@ (2 :> "Samsung_S20"),
              outside |-> <<>>]
    /\ \E ks \in SUBSET (1..Len(LoadCatalog)) :
          /\ Cardinality(ks) <= MaxRuns
          /\ store = LoadStore(ks)
    /\ db = [rows |-> <<>>, pending |-> <<>>]
    /\ inv = 1
    /\ dry_run \in BOOLEAN
    /\ status = "running"
    /\ pc = "start"
    /\ run_dirs = <<>>
    /\ run_idx = 0
    /\ loc = NoLoc
    /\ out = <<>>
    /\ hist = NoHist
    /\ q = <<>>
    /\ res = <<>>

NextLoad == L_Main \/ L_EnterRun \/ L_Line \/ L_EndFile \/ L_EndRun \/ L_Commit \/ L_Abort

SpecLoadCoh == InitLoad /\ [][NextLoad \/ LoadThenValidate \/ NextCoh]_vars

SpecLoad == InitLoad /\ [][NextLoad]_vars

-----------------------------------------------------------------------------
(* m02_windows_logs_03: the probe loader of EVENTI_PC *)

PcTag == "windows_log_dump_0.1"

\* A CSV file is [kind, rows]; a row is what csv.DictReader gives, here the
\* columns TimeCreated, Id and Message.
CsvFile(rows) == [kind |-> "csv", rows |-> rows]

CsvRow(ts, id, msg) == [TimeCreated |-> ts, Id |-> id, Message |-> msg]

\* The run folders a windows_logs dataset root may hold, in sorted() order.
PcCatalog ==
    << [run_base |-> <<"PC_ALE", PcTag, "20251123_233251">>,
        files |-> (<<"LOGS", "Security", "Security.csv">> :>
                      CsvFile(<<CsvRow("2025-11-23 23:30:00", "4624", "logon"),
                                CsvRow("", "4624", "logon"),
                                CsvRow("2025-11-23 23:31:00", "4625", "failed logon"),
                                CsvRow("23/11/2025 23.32", "4624", "logon")>>))],
       [run_base |-> <<"PC_IO", PcTag, "20251124_101500">>,
        files |-> (<<"LOGS", "Security", "Security_events.csv">> :>
                      CsvFile(<<CsvRow("2025-11-24 10:15:00", "4624", "logon"),
                                CsvRow("2025-11-24 10:16:00", "n/a", "audit")>>))],
       [run_base |-> <<"PC_IO", PcTag, "20251125_000000">>,
        files |-> (<<"LOGS", "System", "System.csv">> :>
                      CsvFile(<<CsvRow("2025-11-25 00:00:01", "7045", "service")>>))],
       [run_base |-> <<"PC_IO", PcTag, "20251126_000000">>,
        files |-> (<<"LOGS", "Security", "Security.csv">> :> CsvFile(<<>>))],
       [run_base |-> <<"PC_X", PcTag, "20251124_101500">>,
        files |-> (<<"LOGS", "Security", "Security.csv">> :>
                      CsvFile(<<CsvRow("2025-11-24 10:15:00", "4624", "logon")>>))] >>

PcStore(ks) ==
    LET paths == UNION {{PcCatalog[k].run_base \o x : x \in DOMAIN PcCatalog[k].files} :
                           k \in ks}
        content(p) == LET k == CHOOSE k \in ks : IsUnder(PcCatalog[k].run_base, p)
                      IN PcCatalog[k].files[RelativeTo(PcCatalog[k].run_base, p)]
    IN [dirs |-> UNION {Ancestors(Parent(p)) : p \in paths} \cup {<<>>},
        files |-> [p \in paths |-> content(p)]]

\* The CSV file of every run that has LOGS/<source_log>/<source_log>.csv or
\* else <source_log>_events.csv, devices, tools and runs in sorted() order.
iter_main_log_csv_files(st, source_log, device_label_filter) ==
    LET all == [k \in 1..Len(PcCatalog) |-> PcCatalog[k].run_base]
        logs_root(r) == r \o <<"LOGS", source_log>>
        main_csv(r) == PathJoin(logs_root(r), source_log \o ".csv")
        events_csv(r) == PathJoin(logs_root(r), source_log \o "_events.csv")
        runs == SelectSeq(all, LAMBDA r :
                    /\ r \in st.dirs
                    /\ device_label_filter # "" => r[1] = device_label_filter
                    /\ logs_root(r) \in st.dirs
                    /\ PathPresent(st, main_csv(r)) \/ PathPresent(st, events_csv(r)))
    IN [i \in 1..Len(runs) |->
           IF PathPresent(st, main_csv(runs[i])) THEN main_csv(runs[i])
           ELSE events_csv(runs[i])]

\* <<ts_utc_str, event_code, desc>>; None is "" for the timestamp and -1 for
\* the event code. A timestamp parse_event_time cannot read is kept as it is.
extract_basic_fields(row) ==
    << row.TimeCreated,
       IF row.Id # "" /\ AllDigits(row.Id)
       THEN CHOOSE n \in {4624, 4625, 7045} : ToString(n) = row.Id
       ELSE -1,
       row.Message >>

P_Main ==
    /\ prog = "load_pc" /\ status = "running" /\ pc = "start"
    /\ IF ~PathIsDir(store, args.dataset_root)
       THEN /\ status' = "exception"
            /\ UNCHANGED <<pc, run_dirs, run_idx, res>>
       ELSE IF DOMAIN load_device_map(env.device_labels) = {}
       THEN /\ status' = "done"
            /\ pc' = "done"
            /\ UNCHANGED <<run_dirs, run_idx, res>>
       ELSE /\ run_dirs' = iter_main_log_csv_files(store, args.source_log,
                                                   args.device_label)
            /\ run_idx' = 1
            /\ pc' = "next_file"
            /\ res' = [total_seen |-> 0, total_inserted |-> 0]
            /\ UNCHANGED status
    /\ UNCHANGED <<prog, DEVICE_MAP, src, args, env, store, db, inv, dry_run,
                   loc, out, hist, q>>

\* The head of the loop over CSV files, down to inserted_for_file = 0.
P_EnterFile ==
    /\ prog = "load_pc" /\ status = "running" /\ pc = "next_file"
    /\ run_idx <= Len(run_dirs)
    /\ LET csv_file == run_dirs[run_idx]
           device_label == csv_file[1]
           device_map == load_device_map(env.device_labels)
           rows == store.files[csv_file].rows
       IN IF device_label \notin DOMAIN device_map \/ rows = <<>>
          THEN /\ run_idx' = run_idx + 1
               /\ UNCHANGED <<pc, loc>>
          ELSE /\ loc' = [csv_file |-> csv_file,
                          device_id |-> device_map[device_label],
                          rows |-> rows, row |-> 1, inserted_for_file |-> 0]
               /\ pc' = "rows"
               /\ UNCHANGED run_idx
    /\ UNCHANGED <<prog, DEVICE_MAP, src, args, env, store, db, inv, dry_run,
                   status, run_dirs, out, hist, q, res>>

\* One row of the file; on the limit the loop over rows is left.
P_Row ==
    /\ prog = "load_pc" /\ status = "running" /\ pc = "rows"
    /\ loc.row <= Len(loc.rows)
    /\ LET f == extract_basic_fields(loc.rows[loc.row])
       IN /\ res' = [res EXCEPT
                       !.total_seen = @ + 1,
                       !.total_inserted =
                           IF \/ args.event_code # -1 /\ f[2] # args.event_code
                              \/ f[1] = ""
                              \/ loc.inserted_for_file >= args.limit_per_run
                           THEN @ ELSE @ + 1]
          /\ IF (args.event_code # -1 /\ f[2] # args.event_code) \/ f[1] = ""
             THEN /\ loc' = [loc EXCEPT !.row = @ + 1]
                  /\ UNCHANGED db
             ELSE IF loc.inserted_for_file >= args.limit_per_run
             THEN /\ loc' = [loc EXCEPT !.row = Len(loc.rows) + 1]
                  /\ UNCHANGED db
             ELSE /\ db' = IF dry_run THEN db
                           ELSE [db EXCEPT !.pending =
                                    Append(@, [pc_event_id |-> Len(db.rows)
                                                               + Len(db.pending) + 1,
                                               timestamp_utc |-> f[1],
                                               device_id |-> loc.device_id,
                                               source_log |-> args.source_log,
                                               event_code |-> f[2],
                                               description |-> f[3]])]
                  /\ loc' = [loc EXCEPT !.row = @ + 1, !.inserted_for_file = @ + 1]
    /\ UNCHANGED <<prog, DEVICE_MAP, src, args, env, store, inv, dry_run, status,
                   pc, run_dirs, run_idx, out, hist, q>>

\* After the rows of the file: if not args.dry_run: conn.commit()
P_Commit ==
    /\ prog = "load_pc" /\ status = "running" /\ pc = "rows"
    /\ loc.row > Len(loc.rows)
    /\ db' = IF dry_run THEN db
             ELSE [rows |-> db.rows \o db.pending, pending |-> <<>>]
    /\ out' = Append(out, [csv_file |-> loc.csv_file,
                           inserted_for_file |-> loc.inserted_for_file])
    /\ run_idx' = run_idx + 1
    /\ pc' = "next_file"
    /\ UNCHANGED <<prog, DEVICE_MAP, src, args, env, store, inv, dry_run, status,
                   run_dirs, loc, hist, q, res>>

\* After the last file: conn.close()
P_Close ==
    /\ prog = "load_pc" /\ status = "running" /\ pc = "next_file"
    /\ run_idx > Len(run_dirs)
    /\ pc' = "done"
    /\ status' = "done"
    /\ UNCHANGED <<prog, DEVICE_MAP, src, args, env, store, db, inv, dry_run,
                   run_dirs, run_idx, loc, out, hist, q, res>>

PcArgs ==
    { [dataset_root |-> StoreRoot, source_log |-> "Security", device_label |-> d,
       event_code |-> c, limit_per_run |-> n] :
        d \in {"", "PC_ALE"}, c \in {-1, 4624}, n \in 0..MaxLimit }

InitLoadPc ==
    /\ prog = "load_pc"
    /\ DEVICE_MAP = <<>>
    /\ src = <<>>
    /\ args \in PcArgs
    /\ env \in {[device_labels |-> (1 :> "PC_ALE") @@ (2 :> "PC_IO"), outside |-> <<>>],
                [device_labels |-> <<>>, outside |-> <<>>]}
    /\ \E ks \in SUBSET (1..Len(PcCatalog)) :
          /\ Cardinality(ks) <= MaxRuns
          /\ store = PcStore(ks)
    /\ db = [rows |-> <<>>, pending |-> <<>>]
    /\ inv = 1
    /\ dry_run \in BOOLEAN
    /\ status = "running"
    /\ pc = "start"
    /\ run_dirs = <<>>
    /\ run_idx = 0
    /\ loc = NoLoc
    /\ out = <<>>
    /\ hist = NoHist
    /\ q = <<>>
    /\ res = <<>>

NextLoadPc == P_Main \/ P_EnterFile \/ P_Row \/ P_Commit \/ P_Close

SpecLoaders == (InitLoad \/ InitLoadPc) /\ [][NextLoad \/ NextLoadPc]_vars

-----------------------------------------------------------------------------
(* Commits of the loaders *)

\* The number of records the runs already left behind have inserted.
RECURSIVE InsertedBefore(_, _)
InsertedBefore(log, i) ==
    IF i > Len(log) THEN 0
    ELSE (IF prog = "load" THEN log[i].per_run_inserted ELSE log[i].inserted_for_file)
         + InsertedBefore(log, i + 1)

\* The number of records the run being processed has inserted so far.
InsertedNow ==
    IF pc = "lines" \/ pc = "end_run" THEN loc.per_run_inserted
    ELSE IF pc = "rows" THEN loc.inserted_for_file
    ELSE 0

Loading == prog \in {"load", "load_pc"} /\ ~dry_run /\ pc \notin {"start", "done"}

\* The invocation was aborted in the middle of a run.
AbortedInRun == Loading /\ status = "killed" /\ pc \in {"lines", "end_run", "rows"}

\* C21: at whatever point the invocation is aborted in the middle of run k, the
\* records of every run before k are committed, and the records of run k are
\* all committed or none of them is.
C21_CommitPerRun ==
    AbortedInRun =>
        /\ Len(db.rows) >= InsertedBefore(out, 1)
        /\ Len(db.rows) - InsertedBefore(out, 1) \in {0, InsertedNow}

\* C21, EVENTI_PC loader only: the commit follows the rows of each CSV file.
C21_CommitPerFilePc ==
    (Loading /\ prog = "load_pc" /\ status = "killed") =>
        /\ Len(db.rows) = InsertedBefore(out, 1)
        /\ db.pending = <<>>

\* C21, EVENTI_ANDROID loader: nothing is committed before the last run ends.
C21_CommitAtEndAndroid ==
    (Loading /\ prog = "load" /\ status = "killed") => db.rows = <<>>

\* An invocation aborted in its second run after the first one inserted records.
C21_Witness ==
    /\ AbortedInRun
    /\ Len(out) >= 1
    /\ InsertedBefore(out, 1) > 0
    /\ InsertedNow > 0

-----------------------------------------------------------------------------
(* The RAW_ALL mirror of the Windows-logs builder *)

\* process_run has just returned to main's loop for the run out[Len(out)].
JustBuiltWin == prog = "windows" /\ pc = "next_run" /\ Len(out) > 0 /\ ~dry_run

\* C22 (as claimed): after a real build of a source run of a registered device,
\* every file of the run folder, in EVTX or beside it, has a copy in RAW_ALL.
C22_AllFilesMirrored ==
    JustBuiltWin =>
        LET last == out[Len(out)]
        IN \A f \in src[last.run_dir].files \cup src[last.run_dir].evtx :
              IsFile(store, RawPath(last.run_base, f))

\* C22: after a real build of a source run of a registered device, every file
\* of the EVTX subfolder when the run folder has one, and else every file
\* directly in the run folder, has a same-content copy in RAW_ALL.
C22_SourceFilesMirrored ==
    JustBuiltWin =>
        LET last == out[Len(out)]
        IN \A f \in SourceFilesOf(last.run_dir) :
              HasCopy(store, RawPath(last.run_base, f),
                      SrcContent(last.run_dir, SourceSubOf(last.run_dir), f))

\* A run with an EVTX subfolder and a run without one have both been built.
C22_Witness ==
    /\ JustBuiltWin
    /\ Len(out) = 2
    /\ out[1].run_dir = "PICCIRILLA_AleNew_20251123_233251"
    /\ IsFile(store, RawPath(out[1].run_base, "Security.evtx"))
    /\ out[2].run_dir = "SPARTACUS_20251124_101500"
    /\ IsFile(store, RawPath(out[2].run_base, "Notes.txt"))

\* The file beside EVTX is not in the mirror of the built run.
C22_BesideEvtxLeftOut ==
    /\ JustBuiltWin
    /\ out[Len(out)].run_dir = "PICCIRILLA_AleNew_20251123_233251"
    /\ ~IsFile(store, RawPath(out[Len(out)].run_base, "Notes.txt"))

-----------------------------------------------------------------------------
(* The loader's records under the coherence validator *)

AllFiveOk(k) ==
    /\ res.reports[k].result = "OK"
    /\ {Line("existence", "OK"), Line("containment", "OK"), Line("identity", "OK"),
        Line("temporal", "OK"), Line("content", "OK")} \subseteq LinesOf(k)

\* Every record checked here was inserted by the probe loader from a
\* logcat_main file of the store, which has not changed since.
LoadedRecord(k) == Reported(k) /\ out # <<>> /\ k <= res.total

C23_DayBeforeFails ==
    \E k \in 1..(MaxRuns * (MaxLimit + 1)) :
        /\ LoadedRecord(k)
        /\ res.reports[k].rec.timestamp_utc = "2025-05-31 23:59:58"
        /\ Line("temporal", "ERR") \in LinesOf(k)
        /\ res.reports[k].result = "FAIL"

-----------------------------------------------------------------------------
(* The candidates the run locator keeps *)

\* The candidates that reach `matched` in this search.
Kept ==
    LET candidates == FindCandidates(store, q.order, q.script_tag, q.run_id, 1)
        matched == FindMatched(store, candidates, q.serial, 1)
    IN {matched[i] : i \in 1..Len(matched)}

\* C26: a single candidate <store>/*/<tool_tag>/<run_id> is returned whatever
\* its metadata is; among several candidates one is kept exactly when the
\* expected serial is not empty and is a substring of the ro.serialno or of the
\* brand_model_serial its metadata records, and a candidate without readable
\* metadata is never kept.
C26_KeptBySerialSubstring ==
    Searched =>
        /\ Cardinality(CandidateSet) = 1 =>
              /\ res.run_base.found
              /\ res.run_base.path \in CandidateSet
              /\ res.warnings = <<>>
        /\ Cardinality(CandidateSet) > 1 =>
              /\ \A c \in CandidateSet :
                    c \in Kept <=> (ReadableMeta(c) /\ KeyMatches(c))
              /\ \A c \in CandidateSet : ~ReadableMeta(c) => c \notin Kept
              /\ Kept \subseteq CandidateSet

\* Three candidates: one kept on its brand_model_serial, one with metadata
\* that cannot be parsed, one without metadata.
C26_Witness ==
    /\ Searched
    /\ Cardinality(CandidateSet) = 3
    /\ Cardinality(Kept) = 1
    /\ \E c \in Kept : RecordedRoSerial(c) = "" /\ KeyMatches(c)
    /\ \E c \in CandidateSet : c \notin Kept /\ ~IsFile(store, MetaPath(c))
    /\ \E c \in CandidateSet :
          c \notin Kept /\ IsFile(store, MetaPath(c)) /\ ~ReadableMeta(c)

\* The only candidate has no metadata and is returned.
C26_SingleUnread ==
    /\ Searched
    /\ Cardinality(CandidateSet) = 1
    /\ \A c \in CandidateSet : ~IsFile(store, MetaPath(c))
    /\ res.run_base.found

-----------------------------------------------------------------------------
(* The store-level validator on the store the builder has just written *)

\* The operator runs validation_android.py on the source root the builder has
\* processed, with the builder's dataset root, script name and version.
BuildThenValidate ==
    /\ prog = "android" /\ status = "done" /\ ~dry_run /\ inv = 1
    /\ prog' = "validate"
    /\ \E h \in BOOLEAN :
          args' = [script_name |-> args.script_name,
                   script_version |-> args.script_version, hash |-> h]
    /\ env' = [android_root_is_dir |-> TRUE, order |-> ValOrder]
    /\ status' = "running"
    /\ pc' = "start"
    /\ run_dirs' = <<>>
    /\ run_idx' = 0
    /\ loc' = NoLoc
    /\ res' = NoRuns
    /\ UNCHANGED <<DEVICE_MAP, src, store, db, inv, dry_run, out, hist, q>>

InitBuild == InitAndroid /\ ~dry_run

NextBuildValidate ==
    \/ A_Main
    \/ A_EnterRun
    \/ A_NextItem
    \/ A_CatCopy
    \/ A_WriteMeta
    \/ A_Summary
    \/ BuildThenValidate
    \/ NextValidate

SpecBuildValidate == InitBuild /\ [][NextBuildValidate]_vars

\* The validator has gone through its k-th run folder, after a build.
Validated(k) == prog = "validate" /\ out # <<>> /\ k \in 1..Len(res.results)

HasRunId(k) == res.results[k].info.run_id # "unknown_run"

\* C24 (as claimed): after a build into an empty store, the validator run on
\* the same source root with the same tool name and version reports no error
\* for any source run whose folder name carries a run id.
C24_BuiltStoreValidates ==
    \A k \in 1..MaxRuns : (Validated(k) /\ HasRunId(k)) => res.results[k].errors = <<>>

\* The source runs that have the run id of run folder r.
SameRunId(r) ==
    {o \in DOMAIN src : parse_run_folder_name(o)[2] = parse_run_folder_name(r)[2]}

\* C24, what holds: the validator reports no error for a source run with a
\* run id that is alone on its target and alone with its run id in the source root.
C24_AloneValidates ==
    \A k \in 1..MaxRuns :
        (Validated(k) /\ HasRunId(k)
           /\ SameRunId(res.results[k].info.run_dir) = {res.results[k].info.run_dir})
        => res.results[k].errors = <<>>

\* Two devices of one family with the same run id: the second build has
\* overwritten the first one's logcat file, which --hash reports.
C24_Witness ==
    /\ Validated(2)
    /\ args.hash
    /\ res.results[1].info.run_dir = "samsung_SM-S921B_R1_20250601_120000"
    /\ res.results[2].info.run_dir = "samsung_SM-S921B_R2_20250601_120000"
    /\ res.results[1].errors =
          <<[error |-> "sha256", name |-> "logcat_main_20250601_120000.txt"]>>
    /\ res.results[2].errors = <<>>

\* Two devices with the same run id, built while device R1 was attached: both
\* targets record ro.serialno R1, and the run of R1 is not located.
C24_AmbiguousByAdbSerial ==
    /\ Validated(2)
    /\ ~args.hash
    /\ res.results[1].info.run_dir = "acme_modelX_SN123_20250601_120000"
    /\ res.results[1].errors = <<>>
    /\ res.results[2].info.run_dir = "samsung_SM-S921B_R1_20250601_120000"
    /\ res.results[2].errors = <<[error |-> "no_run_base", name |-> ""]>>
    /\ res.results[2].warnings[1].reason = "ambiguous"

-----------------------------------------------------------------------------
(* The per-run limit of the loaders *)

\* The records inserted for each run left behind and for the run in hand.
InsertedPerRun ==
    {InsertedNow} \cup
    {IF prog = "load" THEN out[i].per_run_inserted ELSE out[i].inserted_for_file :
        i \in 1..Len(out)}

\* C27 (as claimed): the number of events a probe loader inserts for one run
\* never exceeds --limit-per-run, whatever the limit, 0 included.
C27_LimitRespected ==
    Loading => \A n \in InsertedPerRun : n <= args.limit_per_run

\* C27, what holds: a limit of at least 1 is never exceeded by either loader,
\* the EVENTI_PC loader respects a limit of 0 too, and the EVENTI_ANDROID
\* loader inserts at most one event per run under a limit of 0.
C27_LimitRespectedFromOne ==
    Loading =>
        \A n \in InsertedPerRun :
            IF prog = "load_pc" \/ args.limit_per_run >= 1
            THEN n <= args.limit_per_run
            ELSE n <= 1

\* Under a limit of 0 the EVENTI_ANDROID loader has committed one event for
\* each of two runs.
C27_Witness ==
    /\ prog = "load" /\ ~dry_run /\ status = "done"
    /\ args.limit_per_run = 0
    /\ Len(out) = 2
    /\ out[1].per_run_inserted = 1 /\ out[2].per_run_inserted = 1
    /\ Len(db.rows) = 2

\* The limit is reached in the second logcat_main file of a run.
C27_LimitAcrossFiles ==
    /\ prog = "load" /\ ~dry_run /\ pc = "end_run"
    /\ args.limit_per_run = 2
    /\ loc.file = 2
    /\ loc.per_run_inserted = 2

-----------------------------------------------------------------------------
(* The counts in the builder's metadata *)

\* C28: in every acquisition_meta.json the builder has written, total_files
\* equals category_counts["RAW_ALL"] and the number of regular files directly
\* in the source folder, and the counts of META, CORE_SYSTEM, CONNECTIVITY and
\* APPS_PACKAGES together with the number of uncategorized files give total_files.
C28_MetaCountsAddUp ==
    prog = "android" =>
        \A p \in MetaFiles :
            \A m \in {store.files[p]} :
                /\ m.total_files = m.category_counts["RAW_ALL"]
                /\ m.total_files = Cardinality(src[m.source_run_dir].files)
                /\ m.category_counts["META"] + m.category_counts["CORE_SYSTEM"]
                     + m.category_counts["CONNECTIVITY"]
                     + m.category_counts["APPS_PACKAGES"]
                     + Len(m.uncategorized_files) = m.total_files

\* The metadata of a run folder with a classified file, an uncategorized file
\* and a sub-directory.
C28_Witness ==
    /\ prog = "android" /\ ~dry_run /\ pc = "summary"
    /\ loc.run_dir = "samsung_SM-S921B_R1_20250601_120000"
    /\ IsFile(store, MetaPath(loc.run_base))
    /\ store.files[MetaPath(loc.run_base)].total_files = 2
    /\ store.files[MetaPath(loc.run_base)].category_counts["CORE_SYSTEM"] = 1
    /\ store.files[MetaPath(loc.run_base)].uncategorized_files = <<"notes.txt">>
    /\ "bugreport" \in src[loc.run_dir].subdirs

-----------------------------------------------------------------------------
(* milestone_ui: the milestone tracker *)

MaxIterations == 2

MilestoneNames == {"android_adb", "windows_logs"}

StepNames == <<"Dump", "Create Table", "Load Data", "Validate">>

\* Milestone.with_standard_steps: the four steps, never run, iteration 0.
with_standard_steps(name) ==
    [name |-> name,
     steps |-> [i \in 1..Len(StepNames) |->
                   [name |-> StepNames[i], last_run_iteration |-> 0]],
     current_iteration |-> 0]

_iteration_started(m) ==
    /\ m.current_iteration > 0
    /\ \E i \in DOMAIN m.steps : m.steps[i].last_run_iteration = m.current_iteration

iteration_completed(m) ==
    /\ m.current_iteration > 0
    /\ \A i \in DOMAIN m.steps : m.steps[i].last_run_iteration = m.current_iteration

\* step_index counts from 0, as in the source; steps is indexed from 1.
can_run_step(m, step_index) ==
    IF step_index = 0
    THEN ~_iteration_started(m) \/ iteration_completed(m)
    ELSE m.steps[step_index].last_run_iteration = m.current_iteration

mark_step_run(m, step_index) ==
    LET it == IF m.current_iteration = 0 \/ iteration_completed(m)
              THEN m.current_iteration + 1
              ELSE m.current_iteration
    IN  [m EXCEPT !.current_iteration = it,
                  !.steps[step_index + 1].last_run_iteration = it]


\* The last menu operation and what became of it.
MenuOp(op, milestone, index, outcome) ==
    [op |-> op, milestone |-> milestone, index |-> index, outcome |-> outcome]

\* ForensicUI._add_milestone: an empty name is refused; a name already in
\* use replaces the milestone by a fresh one.
M_AddMilestone ==
    /\ prog = "milestone" /\ status = "running" /\ pc = "menu"
    /\ \E name \in MilestoneNames \cup {""} :
          IF name = ""
          THEN /\ q' = MenuOp("add_milestone", name, -1, "refused")
               /\ loc' = loc
          ELSE /\ q' = MenuOp("add_milestone", name, -1, "created")
               /\ loc' = [loc EXCEPT !.milestones =
                              (name :> with_standard_steps(name)) @@ loc.milestones]
    /\ UNCHANGED <<prog, DEVICE_MAP, src, args, env, store, db, inv, dry_run,
                   status, pc, run_dirs, run_idx, out, hist, res>>

\* ForensicUI._run_step: select a milestone, select a step (index counts
\* from 0), refuse when can_run_step is false, else mark_step_run.
M_RunStep ==
    /\ prog = "milestone" /\ status = "running" /\ pc = "menu"
    /\ IF DOMAIN loc.milestones = {}
       THEN /\ q' = MenuOp("run_step", "", -1, "no_milestone")
            /\ loc' = loc
       ELSE \E name \in DOMAIN loc.milestones \cup {""} :
              IF name = ""
              THEN /\ q' = MenuOp("run_step", "", -1, "invalid")
                   /\ loc' = loc
              ELSE \E index \in -1..Len(StepNames), m \in {loc.milestones[name]} :
                     IF index < 0 \/ index >= Len(m.steps)
                     THEN /\ q' = MenuOp("run_step", name, index, "invalid")
                          /\ loc' = loc
                     ELSE IF ~can_run_step(m, index)
                     THEN /\ q' = MenuOp("run_step", name, index, "refused")
                          /\ loc' = loc
                     ELSE /\ mark_step_run(m, index).current_iteration <= MaxIterations
                          /\ q' = MenuOp("run_step", name, index, "recorded")
                          /\ loc' = [loc EXCEPT !.milestones[name] =
                                         mark_step_run(m, index)]
    /\ UNCHANGED <<prog, DEVICE_MAP, src, args, env, store, db, inv, dry_run,
                   status, pc, run_dirs, run_idx, out, hist, res>>

\* ForensicUI._save_and_exit: the configuration is written and the menu ends.
M_SaveAndExit ==
    /\ prog = "milestone" /\ status = "running" /\ pc = "menu"
    /\ store' = [config |-> loc.milestones]
    /\ q' = MenuOp("save_and_exit", "", -1, "saved")
    /\ pc' = "exit"
    /\ status' = "done"
    /\ UNCHANGED <<prog, DEVICE_MAP, src, args, env, db, inv, dry_run,
                   run_dirs, run_idx, loc, out, hist, res>>

\* ForensicUI.__init__ with no configuration file: no milestone yet.
InitMilestone ==
    /\ prog = "milestone"
    /\ DEVICE_MAP = <<>>
    /\ src = <<>>
    /\ args = <<>>
    /\ env = <<>>
    /\ store = <<>>
    /\ db = <<>>
    /\ inv = 1
    /\ dry_run = FALSE
    /\ status = "running"
    /\ pc = "menu"
    /\ run_dirs = <<>>
    /\ run_idx = 0
    /\ loc = [milestones |-> <<>>]
    /\ out = <<>>
    /\ hist = NoHist
    /\ q = <<>>
    /\ res = <<>>

NextMilestone == M_AddMilestone \/ M_RunStep \/ M_SaveAndExit

SpecMilestone == InitMilestone /\ [][NextMilestone]_vars

-----------------------------------------------------------------------------
(* The order of the steps within an iteration *)

\* The steps (numbered from 1) whose last run is the current iteration.
RunInCurrent(m) ==
    {i \in DOMAIN m.steps : m.steps[i].last_run_iteration = m.current_iteration}

IsPrefix(S) == \E k \in 0..Len(StepNames) : S = 1..k

\* C29: in every reachable state of the tracker, the steps of a milestone
\* whose last run is the current iteration form a prefix of the sequence
\* Dump, Create Table, Load Data, Validate.
C29_RunStepsFormPrefix ==
    prog = "milestone" =>
        \A name \in DOMAIN loc.milestones :
            IsPrefix(RunInCurrent(loc.milestones[name]))

\* What can_run_step does ensure: a step other than the first is recorded
\* only when the step before it carried the iteration number the milestone
\* had before the recording.
C29_PreviousCarriedOldIteration ==
    [][(prog = "milestone" /\ q'.op = "run_step" /\ q'.outcome = "recorded"
           /\ q'.index > 0)
        => loc.milestones[q'.milestone].steps[q'.index].last_run_iteration
             = loc.milestones[q'.milestone].current_iteration]_vars

\* "Create Table" recorded on a new milestone: iteration 1 holds the second
\* step alone.
C29_Witness ==
    /\ prog = "milestone"
    /\ q # <<>> /\ q.op = "run_step" /\ q.outcome = "recorded" /\ q.index = 1
    /\ loc.milestones[q.milestone].current_iteration = 1
    /\ RunInCurrent(loc.milestones[q.milestone]) = {2}

\* A completed iteration followed by "Load Data": the next iteration starts
\* at the third step.
C29_AfterCompletedIteration ==
    /\ prog = "milestone"
    /\ q # <<>> /\ q.op = "run_step" /\ q.outcome = "recorded" /\ q.index = 2
    /\ loc.milestones[q.milestone].current_iteration = 2
    /\ \A i \in {1, 2, 4} :
          loc.milestones[q.milestone].steps[i].last_run_iteration = 1

\* An iteration started without Dump in which Dump is refused: the first two
\* steps can never be recorded again.
C29_Stuck ==
    /\ prog = "milestone"
    /\ \E name \in DOMAIN loc.milestones :
          \E m \in {loc.milestones[name]} :
             /\ m.current_iteration = 1
             /\ m.steps[1].last_run_iteration = 0
             /\ ~can_run_step(m, 0) /\ ~can_run_step(m, 1)

-----------------------------------------------------------------------------
(* The iteration counter of a milestone *)

\* A step of the menu that recorded a step of milestone name as run.
Recorded(name) ==
    /\ prog = "milestone"
    /\ q'.op = "run_step" /\ q'.outcome = "recorded" /\ q'.milestone = name

\* current_iteration does not decrease when a step is recorded, and moves
\* by at most one.
IterationMonotone ==
    \A name \in MilestoneNames :
        Recorded(name) =>
            \/ loc'.milestones[name].current_iteration
                 = loc.milestones[name].current_iteration
            \/ loc'.milestones[name].current_iteration
                 = loc.milestones[name].current_iteration + 1

\* current_iteration advances only when Dump is recorded on a milestone
\* never started or whose iteration is completed.
AdvanceOnlyByDump ==
    \A name \in MilestoneNames :
        (/\ Recorded(name)
         /\ loc'.milestones[name].current_iteration
              # loc.milestones[name].current_iteration)
        => /\ q'.index = 0
           /\ \/ loc.milestones[name].current_iteration = 0
              \/ iteration_completed(loc.milestones[name])

\* Dump is not recorded while an iteration is started and not completed.
DumpNotRepeated ==
    \A name \in MilestoneNames :
        (Recorded(name) /\ q'.index = 0)
        => \/ ~_iteration_started(loc.milestones[name])
           \/ iteration_completed(loc.milestones[name])

\* No step's last_run_iteration exceeds current_iteration.
LastRunBounded ==
    prog = "milestone" =>
        \A name \in DOMAIN loc.milestones :
            \A i \in DOMAIN loc.milestones[name].steps :
                loc.milestones[name].steps[i].last_run_iteration
                    <= loc.milestones[name].current_iteration

\* C30: current_iteration never decreases and advances by exactly one only
\* when Dump is run on a never-started milestone or after an iteration in
\* which all four steps were run; Dump is not run again while an iteration is
\* started and not completed; no last_run_iteration exceeds current_iteration.
C30_IterationCounter ==
    /\ []LastRunBounded
    /\ [][IterationMonotone /\ AdvanceOnlyByDump /\ DumpNotRepeated]_vars

\* The parts of C30 the tracker does keep.
C30_MonotoneAndBounded ==
    /\ []LastRunBounded
    /\ [][IterationMonotone /\ DumpNotRepeated]_vars

\* The advance of C30 alone, the part the tracker does not keep.
C30_AdvanceOnlyByDump == [][AdvanceOnlyByDump]_vars

\* "Validate" recorded on a milestone never started: the iteration goes from
\* 0 to 1 without Dump.
C30_Witness ==
    /\ prog = "milestone"
    /\ q # <<>> /\ q.op = "run_step" /\ q.outcome = "recorded" /\ q.index = 3
    /\ loc.milestones[q.milestone].current_iteration = 1
    /\ loc.milestones[q.milestone].steps[1].last_run_iteration = 0
    /\ loc.milestones[q.milestone].steps[4].last_run_iteration = 1

\* Dump recorded after a completed iteration: the advance C30 describes.
C30_DumpAfterCompleted ==
    /\ prog = "milestone"
    /\ q # <<>> /\ q.op = "run_step" /\ q.outcome = "recorded" /\ q.index = 0
    /\ loc.milestones[q.milestone].current_iteration = 2
    /\ \A i \in 2..4 : loc.milestones[q.milestone].steps[i].last_run_iteration = 1

\* Dump refused while its iteration is started and not completed.
C30_DumpRefused ==
    /\ prog = "milestone"
    /\ q # <<>> /\ q.op = "run_step" /\ q.outcome = "refused" /\ q.index = 0
    /\ _iteration_started(loc.milestones[q.milestone])
    /\ ~iteration_completed(loc.milestones[q.milestone])

=============================================================================
